---------------------------- MODULE Spec2Model ----------------------------
(***************************************************************************)
(* A model of colonsh (stephenbaidu/colonsh): the configuration loader of  *)
(* config.go and the command dispatch, shell-integration generator,        *)
(* repository resolver, help formatter, picker commands and profile setup  *)
(* of main.go.                                                             *)
(*                                                                         *)
(* Go strings are TLA+ strings; a character is a string of length 1 and    *)
(* s[i] is SubSeq(s, i, i).  Each component is checked under its own       *)
(* specification (SpecQuote, SpecSlug, ...), all over the same variables.  *)
(***************************************************************************)
EXTENDS Integers, Sequences, FiniteSets, TLC

VARIABLES
    pc,         \* position of the invocation (or of the function under check)
    str,        \* shellQuoteSingle: the argument s
    quoted,     \* shellQuoteSingle: the result
    unquoted,   \* the inverse applied to the result
    inRepo,     \* git rev-parse --is-inside-work-tree succeeds
    rootOk,     \* git rev-parse --show-toplevel succeeds (and prints RepoRoot)
    remoteOk,   \* git config --get remote.origin.url succeeds
    remoteOut,  \* what that command writes to its standard output
    file,       \* ~/colonsh.json: whether it exists and what it holds
    ioOk,       \* reading and writing the file succeed (permissions)
    loads,      \* the outcome of each loadOrInitConfig so far, in order
    cfg,        \* the Config the invocation works with
    args,       \* os.Args[1:]
    envSHELL,   \* the environment variable SHELL ("" when unset)
    goos,       \* runtime.GOOS
    shellArg,   \* cmdInit: the shell kind the output is rendered for
    maxNameLen, \* printHelp: the width names are padded to
    slug,       \* gitRepoSlug: the slug returned
    slugErr,    \* gitRepoSlug: the error returned ("" for nil)
    again,      \* the normalization applied to its own result: the slug
    againErr,   \* ... and the error
    repoIdx,    \* findCurrentRepo: index into cfg.GitRepos, 0 for nil
    execCmd,    \* runShellCommand: the command handed to the shell
    execDir,    \* runShellCommand: its working directory
    err,        \* the error run() returns ("" for nil)
    stdout,     \* the lines written to standard output
    cwdEntries, \* cd: what os.ReadDir(".") returns
    branchOk,   \* git branch --format=... succeeds
    branchOut,  \* what that command writes to its standard output
    pick,       \* the interactive picker: whether it ran and what it returned
    confirm,    \* gdb: the answer to "Proceed with deletion?"
    attempts,   \* gdb: the git branch -d commands run so far, with their outcome
    stderr,     \* main: the lines written to the error stream
    exitCode,   \* main: the exit status of the process, -1 while it runs
    procs,      \* concurrent invocations: where each is in loadOrInitConfig
    profiles,   \* setup: the shell profile files, by path
    today,      \* setup: the date time.Now() gives
    setupLog    \* setup: the profile before and after each run so far

quoteVars == <<str, quoted, unquoted>>
gitVars == <<inRepo, rootOk, remoteOk, remoteOut>>
repoVars == <<slug, slugErr, again, againErr, repoIdx>>
outVars == <<execCmd, execDir, err, stdout>>
diskVars == <<file, ioOk, loads>>
envVars == <<args, envSHELL, goos>>
cmdVars == <<shellArg, maxNameLen>>
pickVars == <<cwdEntries, branchOk, branchOut, pick, confirm, attempts>>
exitVars == <<stderr, exitCode>>
raceVars == <<procs>>
setupVars == <<profiles, today, setupLog>>
extVars == <<pickVars, exitVars, raceVars, setupVars>>
vars == <<pc, quoteVars, gitVars, diskVars, cfg, envVars, cmdVars, repoVars, outVars,
          extVars>>

\* What the actions of one component leave alone.
notQuote == <<gitVars, diskVars, cfg, envVars, cmdVars, repoVars, outVars, extVars>>
notRepo == <<quoteVars, diskVars, envVars, cmdVars, extVars>>
notConfig == <<quoteVars, gitVars, envVars, cmdVars, repoVars, extVars>>
notRun == <<quoteVars, gitVars, diskVars, repoVars, extVars>>
notPick == <<quoteVars, diskVars, cmdVars, repoVars, exitVars, raceVars, setupVars>>

---------------------------------------------------------------------------
(* Bounds of the model.                                                    *)

MaxStrLen == 4
MaxUrlParts == 4
MaxRepos == 2
MaxRuns == 2
MaxAliases == 2
MaxProjectDirs == 2
MaxActions == 2
MaxProcs == 3
MaxSetupRuns == 3

---------------------------------------------------------------------------
(* Go's package strings, as main.go uses it.                                *)

CharAt(s, i) == SubSeq(s, i, i)

Drop(s, n) == SubSeq(s, n + 1, Len(s))

HasPrefix(s, prefix) ==
    Len(s) >= Len(prefix) /\ SubSeq(s, 1, Len(prefix)) = prefix

HasSuffix(s, suffix) ==
    Len(s) >= Len(suffix) /\ SubSeq(s, Len(s) - Len(suffix) + 1, Len(s)) = suffix

TrimPrefix(s, prefix) ==
    IF HasPrefix(s, prefix) THEN Drop(s, Len(prefix)) ELSE s

TrimSuffix(s, suffix) ==
    IF HasSuffix(s, suffix) THEN SubSeq(s, 1, Len(s) - Len(suffix)) ELSE s

\* strings.Index, 1-based; 0 when substr does not occur in s.
Index(s, substr) ==
    LET hits == {i \in 1..(Len(s) + 1) :
                    /\ i + Len(substr) - 1 <= Len(s)
                    /\ SubSeq(s, i, i + Len(substr) - 1) = substr}
    IN  IF hits = {} THEN 0 ELSE CHOOSE i \in hits : \A j \in hits : i <= j

Contains(s, substr) == Index(s, substr) # 0

\* strings.Replace(s, old, new, n) for a non-empty old: the first n
\* non-overlapping occurrences, left to right; every one when n < 0.
RECURSIVE Replace(_, _, _, _)
Replace(s, old, new, n) ==
    LET i == Index(s, old)
    IN  IF n = 0 \/ i = 0
        THEN s
        ELSE SubSeq(s, 1, i - 1) \o new
                \o Replace(Drop(s, i - 1 + Len(old)), old, new,
                           IF n > 0 THEN n - 1 ELSE n)

ReplaceAll(s, old, new) == Replace(s, old, new, 0 - 1)

---------------------------------------------------------------------------
(* The Config of config.go and the values the parts of the state have      *)
(* while a specification does not use them.                                *)

EmptyConfig == [Aliases |-> <<>>, ProjectDirs |-> <<>>, GitRepos |-> <<>>,
                OpenCmd |-> ""]

(* A JSON value: null, a string, an array of values, or an object, which  *)
(* is a sequence of [key, val] members in document order.                  *)
JNull == [t |-> "null", s |-> "", items |-> <<>>]
JStr(x) == [t |-> "string", s |-> x, items |-> <<>>]
JArr(xs) == [t |-> "array", s |-> "", items |-> xs]
JObj(members) == [t |-> "object", s |-> "", items |-> members]
Member(k, v) == [key |-> k, val |-> v]

(* The file: absent, or present with bytes that are a JSON document or not *)
(* (an empty or truncated file is not).                                    *)
NoFile == [exists |-> FALSE, valid |-> FALSE, doc |-> JNull]
Malformed == [exists |-> TRUE, valid |-> FALSE, doc |-> JNull]
FileOf(doc) == [exists |-> TRUE, valid |-> TRUE, doc |-> doc]

IdleQuote == str = "" /\ quoted = "" /\ unquoted = ""
IdleGit ==
    inRepo = FALSE /\ rootOk = FALSE /\ remoteOk = FALSE /\ remoteOut = ""
IdleConfig == cfg = EmptyConfig
IdleRepo ==
    slug = "" /\ slugErr = "" /\ again = "" /\ againErr = "" /\ repoIdx = 0
IdleDisk == file = NoFile /\ ioOk = TRUE /\ loads = <<>>
IdleEnv == args = <<>> /\ envSHELL = "" /\ goos = "linux"
IdleCmd == shellArg = "" /\ maxNameLen = 0
IdleOut == execCmd = "" /\ execDir = "" /\ err = "" /\ stdout = <<>>

\* The picker before it has run.
NoPick == [ran |-> FALSE, err |-> "", one |-> "", many |-> <<>>]

IdlePick ==
    /\ cwdEntries = <<>> /\ branchOk = FALSE /\ branchOut = ""
    /\ pick = NoPick /\ confirm = FALSE /\ attempts = <<>>
IdleExit == stderr = <<>> /\ exitCode = 0 - 1
IdleRace == procs = <<>>
IdleSetup == profiles = <<>> /\ today = "" /\ setupLog = <<>>
IdleExt == IdlePick /\ IdleExit /\ IdleRace /\ IdleSetup

---------------------------------------------------------------------------
(* shellQuoteSingle (main.go) and the inverse the round-trip law names.    *)

SQ == "'"
EscapedSQ == "'\\''"

\* A faulty variant of shellQuoteSingle: the quote is escaped without reopening.
shellQuoteSingleNoReopen(s) == ReplaceAll(s, SQ, "'\\'")

shellQuoteSingle(s) == ReplaceAll(s, SQ, EscapedSQ)

\* The inverse: each '\'' replaced by '.
unquote(s) == ReplaceAll(s, EscapedSQ, SQ)

QuoteAlphabet == {"'", "\\", "a"}

RECURSIVE StringsUpTo(_, _)
StringsUpTo(alphabet, n) ==
    IF n = 0 THEN {""}
    ELSE LET shorter == StringsUpTo(alphabet, n - 1)
         IN  shorter \cup {p \o c : p \in shorter, c \in alphabet}

QuoteInputs == StringsUpTo(QuoteAlphabet, MaxStrLen) \cup {"it's fine"}

InitQuote ==
    /\ pc = "quote"
    /\ str \in QuoteInputs
    /\ quoted = ""
    /\ unquoted = ""
    /\ IdleGit /\ IdleDisk /\ IdleConfig /\ IdleEnv /\ IdleCmd /\ IdleRepo /\ IdleOut
    /\ IdleExt

Quote ==
    /\ pc = "quote"
    /\ quoted' = shellQuoteSingle(str)
    /\ pc' = "unquote"
    /\ UNCHANGED <<str, unquoted, notQuote>>

Unquote ==
    /\ pc = "unquote"
    /\ unquoted' = unquote(quoted)
    /\ pc' = "quoteDone"
    /\ UNCHANGED <<str, quoted, notQuote>>

NextQuote == Quote \/ Unquote

SpecQuote == InitQuote /\ [][NextQuote]_vars

\* C1: for every string s, unquoting shellQuoteSingle(s) restores s exactly,
\* and shellQuoteSingle("it's fine") is it'\''s fine.
C1_RoundTrip ==
    /\ pc = "quoteDone" => unquoted = str
    /\ (pc # "quote" /\ str = "it's fine") => quoted = "it'\\''s fine"

\* A string holding quotes and a backslash between them has been quoted and
\* unquoted.
C1_Witness ==
    /\ pc = "quoteDone"
    /\ str = "'\\''"
    /\ quoted # str
    /\ unquoted = str

---------------------------------------------------------------------------
(* RepoResolver: getRawGitRemoteURL, gitRepoSlug, findCurrentRepo.         *)

IsSpace(c) == c \in {" ", "\t", "\n", "\r"}

RECURSIVE TrimLeft(_)
TrimLeft(s) ==
    IF s # "" /\ IsSpace(CharAt(s, 1)) THEN TrimLeft(Drop(s, 1)) ELSE s

RECURSIVE TrimRight(_)
TrimRight(s) ==
    IF s # "" /\ IsSpace(CharAt(s, Len(s)))
    THEN TrimRight(SubSeq(s, 1, Len(s) - 1))
    ELSE s

TrimSpace(s) == TrimRight(TrimLeft(s))

\* strings.SplitN(s, sep, 2): at most two parts, split at the first sep.
SplitN2(s, sep) ==
    LET i == Index(s, sep)
    IN  IF i = 0 THEN <<s>>
        ELSE <<SubSeq(s, 1, i - 1), Drop(s, i - 1 + Len(sep))>>

\* getRawGitRemoteURL: the trimmed output of git config, or its error.
getRawGitRemoteURL(ok, out) ==
    IF ok THEN [url |-> TrimSpace(out), err |-> ""]
    ELSE [url |-> "", err |-> "exit status 1"]

\* Step 2 of gitRepoSlug: the normalized host/user/repo string.
normalizeURL(rawURL) ==
    LET s0 == TrimSpace(rawURL)
        s1 == TrimSuffix(s0, ".git")
        s2 == IF HasPrefix(s1, "git@")
              THEN Replace(TrimPrefix(s1, "git@"), ":", "/", 1)
              ELSE s1
        s3 == TrimPrefix(s2, "https://")
    IN  TrimPrefix(s3, "http://")

\* A faulty variant of slugOfURL: the host is left in the slug.
slugOfURLKeepsHost(rawURL) ==
    LET s == normalizeURL(rawURL)
    IN  IF Len(SplitN2(s, "/")) < 2
        THEN [slug |-> "", err |-> "could not extract slug from normalized URL: " \o s]
        ELSE [slug |-> s, err |-> ""]

\* Steps 2 and 3 of gitRepoSlug: from the raw remote URL to the slug.
slugOfURL(rawURL) ==
    LET s == normalizeURL(rawURL)
        parts == SplitN2(s, "/")
    IN  IF Len(parts) < 2
        THEN [slug |-> "", err |-> "could not extract slug from normalized URL: " \o s]
        ELSE [slug |-> parts[2], err |-> ""]

gitRepoSlug(ok, out) ==
    LET raw == getRawGitRemoteURL(ok, out)
    IN  IF raw.err # "" THEN [slug |-> "", err |-> raw.err]
        ELSE slugOfURL(raw.url)

\* A faulty variant of lookupFrom: a later entry with the slug replaces an earlier one.
RECURSIVE lookupLast(_, _, _)
lookupLast(repos, repoSlug, i) ==
    IF i > Len(repos) THEN 0
    ELSE LET rest == lookupLast(repos, repoSlug, i + 1)
         IN  IF rest # 0 THEN rest
             ELSE IF repos[i].Slug = repoSlug THEN i ELSE 0

\* The loop of findCurrentRepo from index i on: the first entry whose Slug
\* equals repoSlug, 0 when the loop ends without one.
RECURSIVE lookupFrom(_, _, _)
lookupFrom(repos, repoSlug, i) ==
    IF i > Len(repos) THEN 0
    ELSE IF repos[i].Slug = repoSlug THEN i
    ELSE lookupFrom(repos, repoSlug, i + 1)

findCurrentRepo(c, ok, out) ==
    LET r == gitRepoSlug(ok, out)
    IN  IF r.err # "" THEN 0 ELSE lookupFrom(c.GitRepos, r.slug, 1)

---------------------------------------------------------------------------
(* po: the open command of the current repository.                         *)

RepoRoot == "/home/u/widget"

\* runShellCommand: the shell is started unless the command is empty; ok is
\* whether the child process then exits with status 0.
runShellCommand(cmdStr, dir, ok) ==
    IF cmdStr = "" THEN [execCmd |-> "", execDir |-> "", err |-> "empty command"]
    ELSE [execCmd |-> cmdStr, execDir |-> dir,
          err |-> IF ok THEN "" ELSE "exit status 1"]

\* A faulty variant of effectiveOpenCmd: a matched repository always overrides.
effectiveOpenCmdAlwaysRepo(c, idx) ==
    IF idx # 0 THEN c.GitRepos[idx].OpenCmd
    ELSE IF c.OpenCmd = "" THEN "code ." ELSE c.OpenCmd

\* Step 4 of cmdPO: the global open_cmd or the hardcoded default, overridden
\* by the matched repository's non-empty open_cmd.
effectiveOpenCmd(c, idx) ==
    LET openCmd == IF c.OpenCmd = "" THEN "code ." ELSE c.OpenCmd
    IN  IF idx # 0 /\ c.GitRepos[idx].OpenCmd # ""
        THEN c.GitRepos[idx].OpenCmd
        ELSE openCmd

cmdPO(c, runOk) ==
    IF ~inRepo
    THEN [execCmd |-> "", execDir |-> "", out |-> <<>>,
          err |-> "command 'po' currently expects to be run inside a git repository"]
    ELSE IF ~rootOk
    THEN [execCmd |-> "", execDir |-> "", out |-> <<>>,
          err |-> "failed to get git root: exit status 128"]
    ELSE LET repo == findCurrentRepo(c, remoteOk, remoteOut)
             openCmd == effectiveOpenCmd(c, repo)
             r == runShellCommand(openCmd, RepoRoot, runOk)
         IN  [execCmd |-> r.execCmd, execDir |-> r.execDir,
              out |-> <<"Opening project at " \o RepoRoot \o " with: " \o openCmd>>,
              err |-> r.err]

---------------------------------------------------------------------------
(* The resolver and po as a state machine.                                 *)

GitRepoSlug ==
    /\ pc = "start"
    /\ LET r == gitRepoSlug(remoteOk, remoteOut)
       IN  slug' = r.slug /\ slugErr' = r.err
    /\ pc' = "slugged"
    /\ UNCHANGED <<gitVars, cfg, again, againErr, repoIdx, outVars, notRepo>>

\* The URL-to-slug steps applied to the slug they returned.
GitRepoSlugAgain ==
    /\ pc = "slugged"
    /\ slugErr = ""
    /\ LET r == slugOfURL(slug)
       IN  again' = r.slug /\ againErr' = r.err
    /\ pc' = "reslugged"
    /\ UNCHANGED <<gitVars, cfg, slug, slugErr, repoIdx, outVars, notRepo>>

FindCurrentRepo ==
    /\ pc = "start"
    /\ repoIdx' = findCurrentRepo(cfg, remoteOk, remoteOut)
    /\ pc' = "found"
    /\ UNCHANGED <<gitVars, cfg, slug, slugErr, again, againErr, outVars, notRepo>>

CmdPO ==
    /\ pc = "start"
    /\ \E runOk \in BOOLEAN :
          LET r == cmdPO(cfg, runOk)
          IN  /\ execCmd' = r.execCmd
              /\ execDir' = r.execDir
              /\ stdout' = stdout \o r.out
              /\ err' = r.err
    /\ pc' = "poDone"
    /\ UNCHANGED <<gitVars, cfg, repoVars, notRepo>>

NextRepo == GitRepoSlug \/ GitRepoSlugAgain \/ FindCurrentRepo \/ CmdPO

(* Remote URLs: an optional scheme, up to MaxUrlParts hosts, names and     *)
(* separators, an optional .git, and the newline git ends its output with. *)
UrlPieces == {"h", "a", "/", ":"}
UrlPrefixes == {"", "git@", "https://", "http://"}
UrlSuffixes == {"", ".git"}

SshExample == "git@github.com:acme/widget.git"
HttpsExample == "https://github.com/acme/widget"

RemoteURLs ==
    {pre \o body \o suf : pre \in UrlPrefixes,
                          body \in StringsUpTo(UrlPieces, MaxUrlParts),
                          suf \in UrlSuffixes}
    \cup {SshExample, HttpsExample}

Repo(s, o) == [Slug |-> s, Name |-> "", OpenCmd |-> o, Actions |-> <<>>]

ConfigOf(repos, o) ==
    [Aliases |-> <<>>, ProjectDirs |-> <<>>, GitRepos |-> repos, OpenCmd |-> o]

SlugConfigs ==
    {ConfigOf(<<Repo(s, "")>>, "") : s \in {"a", "a/a", "acme/widget"}}

InitSlug ==
    /\ pc = "start"
    /\ inRepo = TRUE /\ rootOk = TRUE
    /\ \/ remoteOk = FALSE /\ remoteOut = ""
       \/ remoteOk = TRUE /\ remoteOut \in {u \o "\n" : u \in RemoteURLs}
    /\ cfg \in SlugConfigs
    /\ IdleQuote /\ IdleDisk /\ IdleEnv /\ IdleCmd /\ IdleRepo /\ IdleOut
    /\ IdleExt

SpecSlug == InitSlug /\ [][NextRepo]_vars

RECURSIVE SeqsUpTo(_, _)
SeqsUpTo(S, n) ==
    IF n = 0 THEN {<<>>}
    ELSE LET shorter == SeqsUpTo(S, n - 1)
         IN  shorter \cup {Append(q, x) : q \in shorter, x \in S}

RepoEntries == {Repo(s, o) : s \in {"acme/widget", "other/thing"},
                             o \in {"", "idea ."}}

RepoConfigs ==
    {ConfigOf(repos, o) : repos \in SeqsUpTo(RepoEntries, MaxRepos),
                          o \in {"", "vim ."}}

InitRepo ==
    /\ pc = "start"
    /\ \/ inRepo = FALSE /\ rootOk = FALSE /\ remoteOk = FALSE /\ remoteOut = ""
       \/ /\ inRepo = TRUE
          /\ rootOk \in BOOLEAN
          /\ \/ remoteOk = FALSE /\ remoteOut = ""
             \/ /\ remoteOk = TRUE
                /\ remoteOut \in {SshExample \o "\n", HttpsExample \o "\n",
                                  "https://github.com/other/thing.git\n",
                                  "https://github.com/acme\n", "widget\n"}
    /\ cfg \in RepoConfigs
    /\ IdleQuote /\ IdleDisk /\ IdleEnv /\ IdleCmd /\ IdleRepo /\ IdleOut
    /\ IdleExt

SpecRepo == InitRepo /\ [][NextRepo]_vars

---------------------------------------------------------------------------
(* Properties of the resolver and of po.                                   *)

Slugged == pc \in {"slugged", "reslugged"}

ExamplesMapToSlug ==
    (Slugged /\ remoteOut \in {SshExample \o "\n", HttpsExample \o "\n"})
        => (slugErr = "" /\ slug = "acme/widget")

\* C2 as stated: the URL-to-slug steps are idempotent, normalizing a returned
\* slug again returns the same slug, and both example URLs map to acme/widget.
C2_Idempotent ==
    /\ pc = "reslugged" => (againErr = "" /\ again = slug)
    /\ ExamplesMapToSlug

\* C2 as amended: both example URLs map to acme/widget, and the steps are not
\* idempotent: applied to a slug they returned they fail or return a strictly
\* shorter string (acme/widget becomes widget), never the same slug.
C2_NotIdempotent ==
    /\ ExamplesMapToSlug
    /\ pc = "reslugged" => (againErr # "" \/ Len(again) < Len(slug))
    /\ (pc = "reslugged" /\ slug = "acme/widget")
            => (againErr = "" /\ again = "widget")

\* The slug of the https example has been normalized a second time.
C2_Witness ==
    /\ pc = "reslugged"
    /\ remoteOut = HttpsExample \o "\n"
    /\ slug = "acme/widget"
    /\ again = "widget"

\* The non-empty fields of s after its first "/": the path segments that
\* follow the host.
RECURSIVE PathSegments(_)
PathSegments(s) ==
    LET i == Index(s, "/")
    IN  IF i = 0 THEN 0
        ELSE LET rest == Drop(s, i)
                 j == Index(rest, "/")
                 first == IF j = 0 THEN rest ELSE SubSeq(rest, 1, j - 1)
             IN  (IF first = "" THEN 0 ELSE 1) + PathSegments(rest)

\* C10: slug resolution fails whenever the normalized remote has fewer than
\* two path segments after the host, returns a slug only when an owner and a
\* repo segment are present, and the caller then sees no repository match.
C10_FailsBelowTwoSegments ==
    LET few == PathSegments(normalizeURL(remoteOut)) < 2
    IN  /\ (pc = "slugged" /\ remoteOk) => (slugErr # "" <=> few)
        /\ (pc = "found" /\ remoteOk /\ few) => repoIdx = 0

\* The entry the lookup is to return for the current slug: the least index
\* whose Slug equals it, 0 when there is no current slug or no such entry.
CurrentMatch ==
    LET r == gitRepoSlug(remoteOk, remoteOut)
        hits == {i \in 1..Len(cfg.GitRepos) : cfg.GitRepos[i].Slug = r.slug}
    IN  IF r.err # "" \/ hits = {} THEN 0
        ELSE CHOOSE i \in hits : \A j \in hits : i <= j

\* C3: the lookup returns the first entry of cfg.GitRepos whose slug equals
\* the current slug exactly and no match when there is none; a single entry
\* acme/widget is returned for acme/widget and not for other/thing.
C3_FirstMatch ==
    pc = "found" =>
        /\ repoIdx = CurrentMatch
        /\ (Len(cfg.GitRepos) = 1 /\ cfg.GitRepos[1].Slug = "acme/widget") =>
              /\ remoteOut = SshExample \o "\n" => repoIdx = 1
              /\ remoteOut = "https://github.com/other/thing.git\n" => repoIdx = 0

\* Two entries share the current slug and the lookup returned the earlier.
C3_Witness ==
    /\ pc = "found"
    /\ Len(cfg.GitRepos) = 2
    /\ cfg.GitRepos[1].Slug = "acme/widget"
    /\ cfg.GitRepos[2].Slug = "acme/widget"
    /\ cfg.GitRepos[1].OpenCmd # cfg.GitRepos[2].OpenCmd
    /\ remoteOut = HttpsExample \o "\n"
    /\ repoIdx = 1

\* C4: po runs the matched repository's open_cmd when there is a match and
\* it is non-empty, otherwise the global open_cmd when non-empty, otherwise
\* "code .".
C4_OpenCmd ==
    (pc = "poDone" /\ inRepo /\ rootOk) =>
        LET m == CurrentMatch
        IN  /\ execDir = RepoRoot
            /\ execCmd = IF m # 0 /\ cfg.GitRepos[m].OpenCmd # ""
                         THEN cfg.GitRepos[m].OpenCmd
                         ELSE IF cfg.OpenCmd # "" THEN cfg.OpenCmd
                         ELSE "code ."
            /\ (cfg.OpenCmd = "" /\ m # 0 /\ cfg.GitRepos[m].OpenCmd = "idea .")
                    => execCmd = "idea ."
            /\ (cfg.OpenCmd = "" /\ m = 0) => execCmd = "code ."

\* po ran the matched repository's open_cmd with the global one unset.
C4_Witness ==
    /\ pc = "poDone"
    /\ cfg.OpenCmd = ""
    /\ CurrentMatch # 0
    /\ cfg.GitRepos[CurrentMatch].OpenCmd = "idea ."
    /\ execCmd = "idea ."
    /\ err = ""

---------------------------------------------------------------------------
(* ConfigStore (config.go): the JSON document of a Config and back.        *)

configFileName == "colonsh.json"
CfgPath == "/home/u/" \o configFileName

\* defaultConfig
defaultConfig ==
    [OpenCmd |-> "code .",
     Aliases |-> <<[Name |-> "config", Cmd |-> "code ~/" \o configFileName],
                   [Name |-> "c", Cmd |-> "code ."],
                   [Name |-> "source", Cmd |-> "source ~/.zshrc"]>>,
     ProjectDirs |-> <<[Path |-> "~/MyProjects", Exclude |-> <<"bin", "notes">>]>>,
     GitRepos |-> <<[Slug |-> "octocat/Hello-World",
                     Name |-> "Hello-World",
                     OpenCmd |-> "",
                     Actions |-> <<[Name |-> "PRs",
                                    Cmd |-> "open https://github.com/octocat/Hello-World/pulls",
                                    Dir |-> ""]>>]>>]

(* json.MarshalIndent: members in field order under the names of the json  *)
(* tags, an omitempty string left out when empty, a slice without elements *)
(* (nil) as null.                                                          *)
OmitEmpty(k, x) == IF x = "" THEN <<>> ELSE <<Member(k, JStr(x))>>

marshalStrings(xs) ==
    IF xs = <<>> THEN JNull ELSE JArr([i \in 1..Len(xs) |-> JStr(xs[i])])

marshalAlias(a) ==
    JObj(<<Member("name", JStr(a.Name)), Member("cmd", JStr(a.Cmd))>>)

marshalProjectDir(d) ==
    JObj(<<Member("path", JStr(d.Path)),
           Member("exclude", marshalStrings(d.Exclude))>>)

marshalRepoAction(a) ==
    JObj(<<Member("name", JStr(a.Name)), Member("cmd", JStr(a.Cmd))>>
         \o OmitEmpty("dir", a.Dir))

marshalActions(xs) ==
    IF xs = <<>> THEN JNull
    ELSE JArr([i \in 1..Len(xs) |-> marshalRepoAction(xs[i])])

marshalGitRepo(r) ==
    JObj(<<Member("slug", JStr(r.Slug)), Member("name", JStr(r.Name))>>
         \o OmitEmpty("open_cmd", r.OpenCmd)
         \o <<Member("actions", marshalActions(r.Actions))>>)

\* A faulty variant of marshalConfig: open_cmd is written under the Go field's name.
marshalConfigFieldName(c) ==
    JObj(<<Member("aliases",
                  IF c.Aliases = <<>> THEN JNull
                  ELSE JArr([i \in 1..Len(c.Aliases) |-> marshalAlias(c.Aliases[i])])),
           Member("project_dirs",
                  IF c.ProjectDirs = <<>> THEN JNull
                  ELSE JArr([i \in 1..Len(c.ProjectDirs) |->
                                marshalProjectDir(c.ProjectDirs[i])])),
           Member("git_repos",
                  IF c.GitRepos = <<>> THEN JNull
                  ELSE JArr([i \in 1..Len(c.GitRepos) |-> marshalGitRepo(c.GitRepos[i])]))>>
         \o OmitEmpty("OpenCmd", c.OpenCmd))

marshalConfig(c) ==
    JObj(<<Member("aliases",
                  IF c.Aliases = <<>> THEN JNull
                  ELSE JArr([i \in 1..Len(c.Aliases) |-> marshalAlias(c.Aliases[i])])),
           Member("project_dirs",
                  IF c.ProjectDirs = <<>> THEN JNull
                  ELSE JArr([i \in 1..Len(c.ProjectDirs) |->
                                marshalProjectDir(c.ProjectDirs[i])])),
           Member("git_repos",
                  IF c.GitRepos = <<>> THEN JNull
                  ELSE JArr([i \in 1..Len(c.GitRepos) |-> marshalGitRepo(c.GitRepos[i])]))>>
         \o OmitEmpty("open_cmd", c.OpenCmd))

(* json.Unmarshal: a member is found by its key (the last one when a key    *)
(* repeats), an unknown key is ignored, a missing member or null leaves the *)
(* zero value, and a value of another JSON type than the field's is an     *)
(* error.  Each decoder returns [ok, val].                                 *)
Field(v, k) ==
    IF v.t # "object" THEN JNull
    ELSE LET hits == {i \in 1..Len(v.items) : v.items[i].key = k}
         IN  IF hits = {} THEN JNull
             ELSE v.items[CHOOSE i \in hits : \A j \in hits : j <= i].val

strOk(v) == v.t \in {"string", "null"}
strVal(v) == IF v.t = "string" THEN v.s ELSE ""
arrOk(v) == v.t \in {"array", "null"}
arrItems(v) == IF v.t = "array" THEN v.items ELSE <<>>
objOk(v) == v.t \in {"object", "null"}

unmarshalStrings(v) ==
    LET xs == arrItems(v)
    IN  [ok |-> arrOk(v) /\ \A i \in 1..Len(xs) : strOk(xs[i]),
         val |-> [i \in 1..Len(xs) |-> strVal(xs[i])]]

unmarshalAlias(v) ==
    [ok |-> objOk(v) /\ strOk(Field(v, "name")) /\ strOk(Field(v, "cmd")),
     val |-> [Name |-> strVal(Field(v, "name")), Cmd |-> strVal(Field(v, "cmd"))]]

unmarshalProjectDir(v) ==
    LET ex == unmarshalStrings(Field(v, "exclude"))
    IN  [ok |-> objOk(v) /\ strOk(Field(v, "path")) /\ ex.ok,
         val |-> [Path |-> strVal(Field(v, "path")), Exclude |-> ex.val]]

unmarshalRepoAction(v) ==
    [ok |-> /\ objOk(v) /\ strOk(Field(v, "name"))
            /\ strOk(Field(v, "cmd")) /\ strOk(Field(v, "dir")),
     val |-> [Name |-> strVal(Field(v, "name")), Cmd |-> strVal(Field(v, "cmd")),
              Dir |-> strVal(Field(v, "dir"))]]

unmarshalActions(v) ==
    LET xs == arrItems(v)
        rs == [i \in 1..Len(xs) |-> unmarshalRepoAction(xs[i])]
    IN  [ok |-> arrOk(v) /\ \A i \in 1..Len(xs) : rs[i].ok,
         val |-> [i \in 1..Len(xs) |-> rs[i].val]]

unmarshalGitRepo(v) ==
    LET acts == unmarshalActions(Field(v, "actions"))
    IN  [ok |-> /\ objOk(v) /\ strOk(Field(v, "slug")) /\ strOk(Field(v, "name"))
                /\ strOk(Field(v, "open_cmd")) /\ acts.ok,
         val |-> [Slug |-> strVal(Field(v, "slug")), Name |-> strVal(Field(v, "name")),
                  OpenCmd |-> strVal(Field(v, "open_cmd")), Actions |-> acts.val]]

unmarshalConfig(v) ==
    LET as == arrItems(Field(v, "aliases"))
        ds == arrItems(Field(v, "project_dirs"))
        gs == arrItems(Field(v, "git_repos"))
        ra == [i \in 1..Len(as) |-> unmarshalAlias(as[i])]
        rd == [i \in 1..Len(ds) |-> unmarshalProjectDir(ds[i])]
        rg == [i \in 1..Len(gs) |-> unmarshalGitRepo(gs[i])]
    IN  [ok |-> /\ objOk(v)
                /\ arrOk(Field(v, "aliases")) /\ \A i \in 1..Len(as) : ra[i].ok
                /\ arrOk(Field(v, "project_dirs")) /\ \A i \in 1..Len(ds) : rd[i].ok
                /\ arrOk(Field(v, "git_repos")) /\ \A i \in 1..Len(gs) : rg[i].ok
                /\ strOk(Field(v, "open_cmd")),
         val |-> [Aliases |-> [i \in 1..Len(as) |-> ra[i].val],
                  ProjectDirs |-> [i \in 1..Len(ds) |-> rd[i].val],
                  GitRepos |-> [i \in 1..Len(gs) |-> rg[i].val],
                  OpenCmd |-> strVal(Field(v, "open_cmd"))]]

\* A faulty variant of loadOrInitConfig: a file that cannot be parsed is read as
\* the default Config.
loadOrInitConfigLenient(f, io) ==
    IF ~io
    THEN [cfg |-> EmptyConfig, err |-> "open " \o CfgPath \o ": permission denied",
          file |-> f, out |-> <<>>, wrote |-> FALSE]
    ELSE IF f.exists /\ f.valid /\ unmarshalConfig(f.doc).ok
    THEN [cfg |-> unmarshalConfig(f.doc).val, err |-> "", file |-> f, out |-> <<>>,
          wrote |-> FALSE]
    ELSE IF f.exists
    THEN [cfg |-> defaultConfig, err |-> "", file |-> f, out |-> <<>>, wrote |-> FALSE]
    ELSE [cfg |-> defaultConfig, err |-> "",
          file |-> FileOf(marshalConfig(defaultConfig)),
          out |-> <<"colonsh: no config found, created new one at " \o CfgPath,
                    "colonsh: edit the file to add your projects and actions.">>,
          wrote |-> TRUE]

(* loadOrInitConfig(path): the Config and error returned, the file         *)
(* afterwards, the lines printed and whether the file was written.         *)
loadOrInitConfig(f, io) ==
    IF f.exists
    THEN IF ~io
         THEN [cfg |-> EmptyConfig, err |-> "open " \o CfgPath \o ": permission denied",
               file |-> f, out |-> <<>>, wrote |-> FALSE]
         ELSE LET r == unmarshalConfig(f.doc)
              IN  IF ~f.valid \/ ~r.ok
                  THEN [cfg |-> EmptyConfig,
                        err |-> "failed to parse " \o CfgPath \o ": invalid JSON",
                        file |-> f, out |-> <<>>, wrote |-> FALSE]
                  ELSE [cfg |-> r.val, err |-> "", file |-> f, out |-> <<>>,
                        wrote |-> FALSE]
    ELSE IF ~io
         THEN [cfg |-> EmptyConfig, err |-> "open " \o CfgPath \o ": permission denied",
               file |-> f, out |-> <<>>, wrote |-> FALSE]
         ELSE [cfg |-> defaultConfig, err |-> "",
               file |-> FileOf(marshalConfig(defaultConfig)),
               out |-> <<"colonsh: no config found, created new one at " \o CfgPath,
                         "colonsh: edit the file to add your projects and actions.">>,
               wrote |-> TRUE]

---------------------------------------------------------------------------
(* Invocations one after the other on the same file.                       *)

LoadOrInitConfig ==
    /\ pc = "start"
    /\ LET r == loadOrInitConfig(file, ioOk)
       IN  /\ cfg' = r.cfg
           /\ err' = r.err
           /\ file' = r.file
           /\ stdout' = stdout \o r.out
           /\ loads' = Append(loads, [existed |-> file.exists, cfg |-> r.cfg,
                                      err |-> r.err, wrote |-> r.wrote])
    /\ pc' = "loaded"
    /\ UNCHANGED <<ioOk, execCmd, execDir, notConfig>>

\* The process has ended and the next invocation starts.
NextInvocation ==
    /\ pc = "loaded"
    /\ Len(loads) < MaxRuns
    /\ pc' = "start"
    /\ cfg' = EmptyConfig
    /\ err' = ""
    /\ stdout' = <<>>
    /\ UNCHANGED <<diskVars, execCmd, execDir, notConfig>>

NextConfig == LoadOrInitConfig \/ NextInvocation

\* Documents json.Unmarshal accepts or rejects for another reason than syntax.
OddDocs ==
    {JNull, JArr(<<>>), JStr("x"), JObj(<<>>),
     JObj(<<Member("open_cmd", JArr(<<>>))>>),
     JObj(<<Member("aliases", JObj(<<>>))>>),
     JObj(<<Member("aliases", JArr(<<JStr("x")>>))>>),
     JObj(<<Member("editor", JStr("vi")), Member("open_cmd", JStr("vim ."))>>),
     JObj(<<Member("open_cmd", JStr("vim .")), Member("open_cmd", JStr("idea ."))>>)}

InitialFiles ==
    {NoFile, Malformed}
    \cup {FileOf(d) : d \in OddDocs}
    \cup {FileOf(marshalConfig(c)) : c \in RepoConfigs \cup {defaultConfig}}

InitConfig ==
    /\ pc = "start"
    /\ file \in InitialFiles
    /\ ioOk \in BOOLEAN
    /\ loads = <<>>
    /\ IdleQuote /\ IdleGit /\ IdleConfig /\ IdleEnv /\ IdleCmd /\ IdleRepo /\ IdleOut
    /\ IdleExt

SpecConfig == InitConfig /\ [][NextConfig]_vars

\* C5: on a path where no file exists loadOrInitConfig writes the default
\* document and returns the default Config, and the load that follows it
\* returns a Config equal to the default and does not write the file again.
C5_DefaultRoundTrip ==
    \A i \in 1..Len(loads) :
        /\ (~loads[i].existed /\ ioOk) => loads[i].wrote
        /\ loads[i].wrote =>
              /\ loads[i].err = ""
              /\ loads[i].cfg = defaultConfig
              /\ file = FileOf(marshalConfig(defaultConfig))
              /\ i < Len(loads) =>
                    /\ loads[i + 1].err = ""
                    /\ loads[i + 1].cfg = defaultConfig
                    /\ ~loads[i + 1].wrote
                    /\ \A j \in 1..Len(loads) : loads[j].wrote => j = i

\* The file was created by one invocation and read back by the next.
C5_Witness ==
    /\ Len(loads) >= 2
    /\ ~loads[1].existed
    /\ loads[1].wrote
    /\ loads[2].existed
    /\ loads[2].err = ""
    /\ ~loads[2].wrote

---------------------------------------------------------------------------
(* The builtin table and init: the shell integration code.                 *)

builtinAliases == <<
    [Name |-> "help", Desc |-> "Show this help menu",
     Template |-> "{{BIN}}"],
    [Name |-> "init", Desc |-> "Emit shell integration code (stdout)",
     Template |-> ""],
    [Name |-> "setup", Desc |-> "Modify profile to auto-load colonsh",
     Template |-> ""],
    [Name |-> "config", Desc |-> "Open colonsh config file",
     Template |-> "{{BIN}} config"],
    [Name |-> "pd", Desc |-> "Select a project directory",
     Template |-> "cd \"$({{BIN}} pd)\""],
    [Name |-> "cd", Desc |-> "Select subdirectory in CWD",
     Template |-> "cd \"$({{BIN}} cd)\""],
    [Name |-> "po", Desc |-> "Open project in IDE",
     Template |-> "{{BIN}} po"],
    [Name |-> "pa", Desc |-> "Run actions for project",
     Template |-> "{{BIN}} pa"],
    [Name |-> "gb", Desc |-> "Select a git branch",
     Template |-> "{{BIN}} gb"],
    [Name |-> "gnb", Desc |-> "Create a new branch",
     Template |-> "{{BIN}} gnb"],
    [Name |-> "gdb", Desc |-> "Delete a branch",
     Template |-> "{{BIN}} gdb"],
    [Name |-> "gc", Desc |-> "git commit -m <msg>",
     Template |-> "{{BIN}} gc"],
    [Name |-> "gca", Desc |-> "git commit --amend",
     Template |-> "{{BIN}} gca"],
    [Name |-> "gcam", Desc |-> "git commit --amend -m <msg>",
     Template |-> "{{BIN}} gcam"],
    [Name |-> "prs", Desc |-> "Open Pull Requests URL",
     Template |-> "{{BIN}} prs"],
    [Name |-> "main", Desc |-> "Switch to main branch",
     Template |-> "git checkout main"],
    [Name |-> "master", Desc |-> "Switch to master branch",
     Template |-> "git checkout master"],
    [Name |-> "gs", Desc |-> "git status",
     Template |-> "git status"],
    [Name |-> "ll", Desc |-> "git pull",
     Template |-> "git pull"],
    [Name |-> "gaa", Desc |-> "git add .",
     Template |-> "git add ."],
    [Name |-> "gp", Desc |-> "git push",
     Template |-> "git push"],
    [Name |-> "gpf", Desc |-> "git push --force",
     Template |-> "git push --force"],
    [Name |-> "gl", Desc |-> "git log --oneline --graph",
     Template |-> "git log --oneline --graph --decorate"]>>

\* strings.LastIndexByte(s, '/'), 1-based; 0 when s holds no "/".
LastSlash(s) ==
    LET hits == {i \in 1..Len(s) : CharAt(s, i) = "/"}
    IN  IF hits = {} THEN 0 ELSE CHOOSE i \in hits : \A j \in hits : j <= i

RECURSIVE StripTrailingSlashes(_)
StripTrailingSlashes(s) ==
    IF s # "" /\ CharAt(s, Len(s)) = "/"
    THEN StripTrailingSlashes(SubSeq(s, 1, Len(s) - 1))
    ELSE s

\* filepath.Base with "/" as the separator.
Base(path) ==
    IF path = "" THEN "."
    ELSE LET p == StripTrailingSlashes(path)
             q == Drop(p, LastSlash(p))
         IN  IF q = "" THEN "/" ELSE q

detectShell(shellPath, os) ==
    LET base == Base(shellPath)
    IN  IF shellPath # "" /\ Contains(base, "zsh") THEN "zsh"
        ELSE IF shellPath # "" /\ Contains(base, "bash") THEN "bash"
        ELSE IF shellPath # "" /\ Contains(base, "fish") THEN "fish"
        ELSE IF os = "windows" THEN "powershell"
        ELSE "zsh"

\* What os.Executable() returns, without error, for the running binary.
Exe == "/usr/local/bin/colonsh"

\* fmt's %q of a string of printable ASCII.
GoQuote(s) ==
    "\"" \o ReplaceAll(ReplaceAll(s, "\\", "\\\\"), "\"", "\\\"") \o "\""

\* The shell kind cmdInit renders for: its argument when it is one of the
\* three it knows, the detected shell otherwise.
renderShell(arg, shellPath, os) ==
    IF arg # "zsh" /\ arg # "bash" /\ arg # "powershell"
    THEN detectShell(shellPath, os)
    ELSE arg

\* The case "init" of run: the argument handed to cmdInit.
initShellArg(as) == IF Len(as) > 1 THEN as[2] ELSE "zsh"

powershellHeader(exe) ==
    <<"# colonsh PowerShell Integration",
      "# Paste the output of 'colonsh init' into your $PROFILE file.",
      "",
      "# Binary path (using full path for reliability)",
      "$COLONSH_BIN='" \o exe \o "'",
      "",
      "# Root alias (::)",
      "Function Global:colonsh { & $COLONSH_BIN @args }",
      "Set-Alias -Name '::' -Value colonsh",
      "",
      "# --- Built-in Aliases (PowerShell) ---">>

posixHeader(exe, shell) ==
    <<"# colonsh shell integration",
      "# Generated by: " \o Base(exe) \o " init " \o shell,
      "",
      "export COLONSH_BIN=" \o GoQuote(exe),
      "",
      "# Root help / entrypoint",
      "alias ::='$COLONSH_BIN'",
      "",
      "# --- Built-in Aliases (UNIX) ---">>

powershellSkips(ba) ==
    ba.Template = "" \/ ba.Name = "help" \/ ba.Name = "pd" \/ ba.Name = "cd"

\* A faulty variant of posixSkips: the PowerShell loop's condition in the UNIX loop.
posixSkipsLikePowershell(ba) == powershellSkips(ba)

posixSkips(ba) == ba.Template = "" \/ ba.Name = "help"

powershellAliasLine(name, cmd) ==
    "Set-Alias -Name ':" \o name \o "' -Value '" \o cmd \o "'"

\* A faulty variant of posixAliasLine: the command is wrapped without being escaped.
posixAliasLineRaw(name, cmd) == "alias :" \o name \o "='" \o cmd \o "'"

posixAliasLine(name, cmd) ==
    "alias :" \o name \o "='" \o shellQuoteSingle(cmd) \o "'"

powershellBuiltinLine(ba, exe) ==
    LET cmd == ReplaceAll(ba.Template, "{{BIN}}", "$COLONSH_BIN")
    IN  powershellAliasLine(ba.Name, ReplaceAll(cmd, "$COLONSH_BIN", exe))

posixBuiltinLine(ba) ==
    posixAliasLine(ba.Name, ReplaceAll(ba.Template, "{{BIN}}", "$COLONSH_BIN"))

\* The loops over a table: one line per entry that is not skipped, in order.
RECURSIVE powershellBuiltinLines(_, _)
powershellBuiltinLines(table, exe) ==
    IF table = <<>> THEN <<>>
    ELSE (IF powershellSkips(Head(table)) THEN <<>>
          ELSE <<powershellBuiltinLine(Head(table), exe)>>)
         \o powershellBuiltinLines(Tail(table), exe)

RECURSIVE posixBuiltinLines(_)
posixBuiltinLines(table) ==
    IF table = <<>> THEN <<>>
    ELSE (IF posixSkips(Head(table)) THEN <<>>
          ELSE <<posixBuiltinLine(Head(table))>>)
         \o posixBuiltinLines(Tail(table))

\* A faulty variant of customAliasLines: an alias named like a builtin is dropped.
RECURSIVE customAliasLinesDedup(_, _)
customAliasLinesDedup(aliases, shell) ==
    IF aliases = <<>> THEN <<>>
    ELSE LET a == Head(aliases)
         IN  (IF \/ a.Name = "" \/ a.Cmd = ""
                 \/ \E i \in 1..Len(builtinAliases) : builtinAliases[i].Name = a.Name
              THEN <<>>
              ELSE IF shell = "powershell"
                   THEN <<powershellAliasLine(a.Name, a.Cmd)>>
                   ELSE <<posixAliasLine(a.Name, a.Cmd)>>)
             \o customAliasLinesDedup(Tail(aliases), shell)

RECURSIVE customAliasLines(_, _)
customAliasLines(aliases, shell) ==
    IF aliases = <<>> THEN <<>>
    ELSE LET a == Head(aliases)
         IN  (IF a.Name = "" \/ a.Cmd = "" THEN <<>>
              ELSE IF shell = "powershell"
                   THEN <<powershellAliasLine(a.Name, a.Cmd)>>
                   ELSE <<posixAliasLine(a.Name, a.Cmd)>>)
             \o customAliasLines(Tail(aliases), shell)

\* A faulty variant of cmdInit: the custom aliases are written before the builtins.
cmdInitCustomFirst(arg, c, shellPath, os) ==
    LET shell == renderShell(arg, shellPath, os)
    IN  (IF shell = "powershell" THEN powershellHeader(Exe) ELSE posixHeader(Exe, shell))
        \o (IF Len(c.Aliases) > 0
            THEN <<"", "# --- Custom aliases from colonsh.json ---">>
                 \o customAliasLines(c.Aliases, shell)
            ELSE <<>>)
        \o (IF shell = "powershell"
            THEN powershellBuiltinLines(builtinAliases, Exe)
            ELSE posixBuiltinLines(builtinAliases))

\* cmdInit: the lines of the text it prints.
cmdInit(arg, c, shellPath, os) ==
    LET shell == renderShell(arg, shellPath, os)
    IN  (IF shell = "powershell"
         THEN powershellHeader(Exe) \o powershellBuiltinLines(builtinAliases, Exe)
         ELSE posixHeader(Exe, shell) \o posixBuiltinLines(builtinAliases))
        \o (IF Len(c.Aliases) > 0
            THEN <<"", "# --- Custom aliases from colonsh.json ---">>
                 \o customAliasLines(c.Aliases, shell)
            ELSE <<>>)

---------------------------------------------------------------------------
(* printHelp: the listing and the width its names are padded to.           *)

RECURSIVE Spaces(_)
Spaces(n) == IF n = 0 THEN "" ELSE " " \o Spaces(n - 1)

\* fmt's %-*s: s, then spaces up to the width.
PadRight(s, width) ==
    IF Len(s) >= width THEN s ELSE s \o Spaces(width - Len(s))

helpLine(width, name, text) == "  " \o PadRight(name, width) \o "  " \o text

\* The first loop of printHelp from the width m on: the longest builtin Name.
RECURSIVE builtinNameLen(_, _)
builtinNameLen(table, m) ==
    IF table = <<>> THEN m
    ELSE builtinNameLen(Tail(table),
                        IF Len(Head(table).Name) > m THEN Len(Head(table).Name) ELSE m)

\* The second loop: an alias name and its leading colon.
RECURSIVE aliasNameLen(_, _)
aliasNameLen(aliases, m) ==
    IF aliases = <<>> THEN m
    ELSE aliasNameLen(Tail(aliases),
                      IF Len(Head(aliases).Name) + 1 > m
                      THEN Len(Head(aliases).Name) + 1 ELSE m)

helpWidth(c) == aliasNameLen(c.Aliases, builtinNameLen(builtinAliases, 0))

\* A faulty variant of helpBuiltinLines: entries without a template are listed too.
RECURSIVE helpBuiltinLinesAll(_, _)
helpBuiltinLinesAll(table, width) ==
    IF table = <<>> THEN <<>>
    ELSE LET ba == Head(table)
         IN  (IF ba.Name = "help" THEN <<>>
              ELSE <<helpLine(width, ":" \o ba.Name, ba.Desc)>>)
             \o helpBuiltinLinesAll(Tail(table), width)

RECURSIVE helpBuiltinLines(_, _)
helpBuiltinLines(table, width) ==
    IF table = <<>> THEN <<>>
    ELSE LET ba == Head(table)
         IN  (IF ba.Template = "" \/ ba.Name = "help" THEN <<>>
              ELSE <<helpLine(width, ":" \o ba.Name, ba.Desc)>>)
             \o helpBuiltinLines(Tail(table), width)

RECURSIVE helpAliasLines(_, _)
helpAliasLines(aliases, width) ==
    IF aliases = <<>> THEN <<>>
    ELSE LET a == Head(aliases)
         IN  (IF a.Name = "" \/ a.Cmd = "" THEN <<>>
              ELSE <<helpLine(width, ":" \o a.Name, a.Cmd)>>)
             \o helpAliasLines(Tail(aliases), width)

\* printHelp: the lines it prints.
printHelp(c) ==
    LET width == helpWidth(c)
    IN  <<"Welcome to colonsh! Your config file is at ~/" \o configFileName,
          "", "Built-in :aliases:",
          helpLine(width, "::", "Show this help menu")>>
        \o helpBuiltinLines(builtinAliases, width)
        \o (IF Len(c.Aliases) > 0
            THEN <<"", "Custom aliases (from config):">>
                 \o helpAliasLines(c.Aliases, width)
            ELSE <<>>)
        \o <<"">>

---------------------------------------------------------------------------
(* run, after the Config is loaded: init, and the help of no or an unknown *)
(* subcommand.                                                             *)

Subcommands == {"init", "setup", "config", "pd", "po", "pa", "gb", "gnb",
                "gdb", "gc", "gca", "gcam", "prs", "cd"}

RunInit ==
    /\ pc = "loaded"
    /\ Len(args) > 0
    /\ args[1] = "init"
    /\ shellArg' = renderShell(initShellArg(args), envSHELL, goos)
    /\ stdout' = stdout \o cmdInit(initShellArg(args), cfg, envSHELL, goos)
    /\ err' = ""
    /\ pc' = "initDone"
    /\ UNCHANGED <<cfg, envVars, maxNameLen, execCmd, execDir, notRun>>

RunHelp ==
    /\ pc = "loaded"
    /\ IF Len(args) = 0 THEN TRUE ELSE args[1] \notin Subcommands
    /\ maxNameLen' = helpWidth(cfg)
    /\ stdout' = stdout \o printHelp(cfg)
    /\ err' = ""
    /\ pc' = "helpDone"
    /\ UNCHANGED <<cfg, envVars, shellArg, execCmd, execDir, notRun>>

NextRun == RunInit \/ RunHelp

AliasEntries ==
    {[Name |-> "say", Cmd |-> "echo 'it''s'"],
     [Name |-> "config", Cmd |-> "code ~/colonsh.json"],
     [Name |-> "pd", Cmd |-> "cd ~/src"],
     [Name |-> "verylongalias", Cmd |-> "git log --format='%h'"],
     [Name |-> "", Cmd |-> "ls"],
     [Name |-> "noop", Cmd |-> ""]}

AliasConfigs ==
    {[Aliases |-> as, ProjectDirs |-> <<>>, GitRepos |-> <<>>, OpenCmd |-> ""] :
        as \in SeqsUpTo(AliasEntries, MaxAliases)}

RunArgs ==
    {<<>>, <<"help">>, <<"init">>, <<"init", "zsh">>, <<"init", "bash">>,
     <<"init", "powershell">>, <<"init", "fish">>, <<"init", "tcsh">>}

ShellPaths == {"", "/bin/zsh", "/usr/bin/bash", "/usr/bin/fish", "/bin/sh"}

InitRun ==
    /\ pc = "loaded"
    /\ cfg \in AliasConfigs
    /\ args \in RunArgs
    /\ envSHELL \in ShellPaths
    /\ goos \in {"linux", "windows"}
    /\ IdleQuote /\ IdleGit /\ IdleDisk /\ IdleCmd /\ IdleRepo /\ IdleOut
    /\ IdleExt

SpecRun == InitRun /\ [][NextRun]_vars

---------------------------------------------------------------------------
(* Properties of init and of the help listing.                             *)

IsPosixEntry(line) == HasPrefix(line, "alias :")
IsPowershellEntry(line) == HasPrefix(line, "Set-Alias -Name ':")
IsEntry(line) == IsPosixEntry(line) \/ IsPowershellEntry(line)

\* The command entries of a text: its alias definitions, the root's included.
CommandEntries(lines) == SelectSeq(lines, IsEntry)

WithTemplate == {i \in 1..Len(builtinAliases) : builtinAliases[i].Template # ""}

HasEntryFor(name) ==
    \E k \in 1..Len(stdout) :
        \/ HasPrefix(stdout[k], "alias :" \o name \o "='")
        \/ HasPrefix(stdout[k], "Set-Alias -Name ':" \o name \o "' ")

\* C6 as stated: for either shell kind the text of cmdInit holds at least as
\* many command entries as there are builtins with a non-empty template.
C6_NoBuiltinDropped ==
    pc = "initDone" => Len(CommandEntries(stdout)) >= Cardinality(WithTemplate)

\* C6 as amended: the POSIX text holds at least as many command entries as
\* there are builtins with a non-empty template, help as the root alias and
\* every other one under its own name; the PowerShell text leaves out pd and
\* cd besides, so it holds at least that number less two.
C6_DroppedOnlyForPowershell ==
    pc = "initDone" =>
        /\ HasEntryFor(":")
        /\ shellArg # "powershell" =>
              /\ Len(CommandEntries(stdout)) >= Cardinality(WithTemplate)
              /\ \A i \in WithTemplate :
                    builtinAliases[i].Name # "help"
                        => HasEntryFor(builtinAliases[i].Name)
        /\ shellArg = "powershell" =>
              /\ Len(CommandEntries(stdout)) >= Cardinality(WithTemplate) - 2
              /\ \A i \in WithTemplate :
                    builtinAliases[i].Name \notin {"help", "pd", "cd"}
                        => HasEntryFor(builtinAliases[i].Name)

\* PowerShell text without custom aliases: two entries fewer than templates.
C6_Witness ==
    /\ pc = "initDone"
    /\ shellArg = "powershell"
    /\ cfg.Aliases = <<>>
    /\ Len(CommandEntries(stdout)) = Cardinality(WithTemplate) - 2
    /\ ~HasEntryFor("pd")

\* The name and the body of a line alias :<name>='<body>'; the body of any
\* other line is the mark "?".
EntryName(line) ==
    LET rest == TrimPrefix(line, "alias :")
    IN  SubSeq(rest, 1, Index(rest, "='") - 1)

EntryBody(line) ==
    LET rest == TrimPrefix(line, "alias :")
        i == Index(rest, "='")
    IN  IF IsPosixEntry(line) /\ i # 0 /\ HasSuffix(line, "'") /\ Len(rest) >= i + 2
        THEN SubSeq(rest, i + 2, Len(rest) - 1)
        ELSE "?"

\* No single quote of the body stands outside an '\'' sequence.
RECURSIVE OnlyEscapedQuotes(_)
OnlyEscapedQuotes(body) ==
    LET i == Index(body, SQ)
    IN  IF i = 0 THEN TRUE
        ELSE /\ i + Len(EscapedSQ) - 1 <= Len(body)
             /\ SubSeq(body, i, i + Len(EscapedSQ) - 1) = EscapedSQ
             /\ OnlyEscapedQuotes(Drop(body, i - 1 + Len(EscapedSQ)))

HasAliasForm(ba) == ba.Template # "" /\ ba.Name # "help"
IsDefined(a) == a.Name # "" /\ a.Cmd # ""

\* The commands the POSIX text is to define, in order: the root, the builtins
\* with their placeholder substituted, the custom aliases.
PosixCommands ==
    LET bs == SelectSeq(builtinAliases, HasAliasForm)
        as == SelectSeq(cfg.Aliases, IsDefined)
    IN  <<[name |-> ":", cmd |-> "$COLONSH_BIN"]>>
        \o [i \in 1..Len(bs) |->
               [name |-> bs[i].Name,
                cmd |-> ReplaceAll(bs[i].Template, "{{BIN}}", "$COLONSH_BIN")]]
        \o [i \in 1..Len(as) |-> [name |-> as[i].Name, cmd |-> as[i].Cmd]]

\* C7: every alias line of the POSIX text, builtin or custom, is
\* alias :<name>='<body>' with a body in which no single quote stands outside
\* an '\'' sequence and which unquotes to the command exactly.
C7_PosixBodiesQuoted ==
    (pc = "initDone" /\ shellArg # "powershell") =>
        LET entries == SelectSeq(stdout, IsPosixEntry)
            cmds == PosixCommands
        IN  /\ Len(entries) = Len(cmds)
            /\ \A k \in 1..Len(entries) :
                  /\ EntryName(entries[k]) = cmds[k].name
                  /\ entries[k] = "alias :" \o cmds[k].name \o "='"
                                      \o EntryBody(entries[k]) \o "'"
                  /\ OnlyEscapedQuotes(EntryBody(entries[k]))
                  /\ unquote(EntryBody(entries[k])) = cmds[k].cmd

\* A custom alias whose command holds single quotes was written to the POSIX
\* text with every quote escaped.
C7_Witness ==
    /\ pc = "initDone"
    /\ shellArg = "bash"
    /\ \E i \in 1..Len(cfg.Aliases) :
          /\ cfg.Aliases[i].Cmd = "echo 'it''s'"
          /\ \E k \in 1..Len(stdout) :
                stdout[k] = "alias :say='echo '\\''it'\\'''\\''s'\\'''"

Max(a, b) == IF a >= b THEN a ELSE b

\* The length of the longest of a set of strings, 0 for the empty set.
Longest(S) ==
    IF S = {} THEN 0
    ELSE LET x == CHOOSE s \in S : \A u \in S : Len(u) <= Len(s) IN Len(x)

\* C8: the help listing's column width is the maximum of the longest builtin
\* display name (the name with its leading ':') and the longest custom alias
\* name plus one.
C8_HelpWidth ==
    pc = "helpDone" =>
        maxNameLen =
            Max(Longest({":" \o builtinAliases[i].Name : i \in 1..Len(builtinAliases)}),
                IF cfg.Aliases = <<>> THEN 0
                ELSE Longest({cfg.Aliases[i].Name : i \in 1..Len(cfg.Aliases)}) + 1)

\* C9: an unrecognized or missing shell-kind argument of init gives the shell
\* detected from the environment; zsh, bash and powershell are used as given.
C9_DetectsWhenUnspecified ==
    pc = "initDone" =>
        shellArg = IF Len(args) > 1 /\ args[2] \in {"zsh", "bash", "powershell"}
                   THEN args[2]
                   ELSE detectShell(envSHELL, goos)

---------------------------------------------------------------------------
(* The order of the commands in the text of init.                          *)

\* The name a command entry defines, without its leading colon (":" for the
\* root alias ::).
CommandName(line) ==
    IF IsPosixEntry(line) THEN EntryName(line)
    ELSE LET rest == TrimPrefix(line, "Set-Alias -Name ':")
         IN  SubSeq(rest, 1, Index(rest, "' -Value") - 1)

\* The position of a name in the builtin table, 0 when it is not in it.
BuiltinIndex(name) ==
    LET hits == {i \in 1..Len(builtinAliases) : builtinAliases[i].Name = name}
    IN  IF hits = {} THEN 0 ELSE CHOOSE i \in hits : TRUE

RootEntry(shell) ==
    IF shell = "powershell" THEN "Set-Alias -Name '::' -Value colonsh"
    ELSE "alias ::='$COLONSH_BIN'"

\* C14: the command entries of the text of cmdInit are the root alias ::,
\* which runs the binary with no argument, then builtins in the order of
\* their declaration, then the custom aliases in the order of the
\* configuration file, every one of them after every builtin.
C14_FixedOrder ==
    pc = "initDone" =>
        LET es == CommandEntries(stdout)
            as == SelectSeq(cfg.Aliases, IsDefined)
            nb == Len(es) - 1 - Len(as)
        IN  /\ Len(es) >= 1 + Len(as)
            /\ es[1] = RootEntry(shellArg)
            /\ shellArg = "powershell" =>
                  \E k \in 1..Len(stdout) :
                      stdout[k] = "Function Global:colonsh { & $COLONSH_BIN @args }"
            /\ \A k \in 2..(nb + 1) : BuiltinIndex(CommandName(es[k])) # 0
            /\ \A k \in 2..nb :
                  BuiltinIndex(CommandName(es[k])) < BuiltinIndex(CommandName(es[k + 1]))
            /\ \A j \in 1..Len(as) :
                  /\ CommandName(es[nb + 1 + j]) = as[j].Name
                  /\ es[nb + 1 + j] =
                        IF shellArg = "powershell"
                        THEN powershellAliasLine(as[j].Name, as[j].Cmd)
                        ELSE posixAliasLine(as[j].Name, as[j].Cmd)

\* Two custom aliases, the first of them named like a builtin, were written
\* after the last builtin in the order of the configuration.
C14_Witness ==
    /\ pc = "initDone"
    /\ Len(cfg.Aliases) = 2
    /\ cfg.Aliases[1].Name = "config"
    /\ cfg.Aliases[2].Name = "say"
    /\ LET es == CommandEntries(stdout)
       IN  /\ Len(es) > 4
           /\ CommandName(es[Len(es) - 2]) = "gl"
           /\ CommandName(es[Len(es) - 1]) = "config"
           /\ CommandName(es[Len(es)]) = "say"

---------------------------------------------------------------------------
(* The builtins without a template: init and setup.                        *)

NoTemplate == {i \in 1..Len(builtinAliases) : builtinAliases[i].Template = ""}

DefinedAliasNames ==
    {cfg.Aliases[i].Name : i \in {j \in 1..Len(cfg.Aliases) : IsDefined(cfg.Aliases[j])}}

\* A line of the help listing that lists the command :<name>.
ListsCommand(line, name) ==
    \/ line = "  :" \o name
    \/ HasPrefix(line, "  :" \o name \o " ")

HelpLists(name) == \E k \in 1..Len(stdout) : ListsCommand(stdout[k], name)

NoEntryForNoTemplate ==
    pc = "initDone" =>
        \A i \in NoTemplate :
            builtinAliases[i].Name \notin DefinedAliasNames
                => ~HasEntryFor(builtinAliases[i].Name)

\* C15 as stated: a builtin whose template is empty has no alias line in the
\* text of init for either shell kind, and the listing of printHelp lists it.
C15_ListedInHelp ==
    /\ NoEntryForNoTemplate
    /\ pc = "helpDone" =>
          \A i \in NoTemplate : HelpLists(builtinAliases[i].Name)

\* C15 as amended: a builtin whose template is empty has no alias line in
\* the text of init for either shell kind, and the listing of printHelp
\* leaves it out as well: no line lists it and none holds its description.
C15_LeftOutOfHelp ==
    /\ NoEntryForNoTemplate
    /\ pc = "helpDone" =>
          \A i \in NoTemplate :
              /\ builtinAliases[i].Name \notin DefinedAliasNames
                    => ~HelpLists(builtinAliases[i].Name)
              /\ \A k \in 1..Len(stdout) :
                    ~Contains(stdout[k], builtinAliases[i].Desc)

\* A help listing that lists config, a builtin with a template, and neither
\* init nor setup.
C15_Witness ==
    /\ pc = "helpDone"
    /\ NoTemplate # {}
    /\ HelpLists("config")
    /\ ~HelpLists("init")
    /\ ~HelpLists("setup")

---------------------------------------------------------------------------
(* A custom alias named like a builtin.                                    *)

\* The builtins a shell kind gets an alias line for.
EmittedFor(shell, ba) ==
    /\ ba.Template # ""
    /\ ba.Name # "help"
    /\ shell = "powershell" => ba.Name \notin {"pd", "cd"}

\* The positions, among the command entries, of the entries that define name.
EntriesNamed(name) ==
    LET es == CommandEntries(stdout)
    IN  {k \in 1..Len(es) : CommandName(es[k]) = name}

DefinedNamed(name) ==
    {j \in 1..Len(cfg.Aliases) :
        IsDefined(cfg.Aliases[j]) /\ cfg.Aliases[j].Name = name}

CustomLine(a) ==
    IF shellArg = "powershell"
    THEN "Set-Alias -Name ':" \o a.Name \o "' -Value '" \o a.Cmd \o "'"
    ELSE "alias :" \o a.Name \o "='" \o ReplaceAll(a.Cmd, "'", "'\\''") \o "'"

\* The builtin's entry stands among the builtins and each custom alias of
\* that name has its entry after it.
BothDefinitions(j) ==
    LET es == CommandEntries(stdout)
        a == cfg.Aliases[j]
        last == Len(es) - Len(SelectSeq(cfg.Aliases, IsDefined))
        hits == EntriesNamed(a.Name)
    IN  /\ Cardinality(hits) = 1 + Cardinality(DefinedNamed(a.Name))
        /\ \E k \in hits :
              /\ k <= last
              /\ es[k] # CustomLine(a)
              /\ \E l \in hits : l > last /\ es[l] = CustomLine(a)

\* Only the custom aliases of that name have an entry.
OnlyCustomDefinition(j) ==
    LET es == CommandEntries(stdout)
        a == cfg.Aliases[j]
        hits == EntriesNamed(a.Name)
    IN  /\ Cardinality(hits) = Cardinality(DefinedNamed(a.Name))
        /\ \E l \in hits : es[l] = CustomLine(a)

\* C16 as stated: for a custom alias with a non-empty name and cmd whose name
\* is that of a builtin with a template, the text of cmdInit holds the
\* builtin's line and, later, the custom alias's line.
C16_BothEmitted ==
    pc = "initDone" =>
        \A j \in 1..Len(cfg.Aliases) :
            LET a == cfg.Aliases[j]
                i == BuiltinIndex(a.Name)
            IN  (/\ IsDefined(a)
                 /\ i # 0
                 /\ builtinAliases[i].Template # ""
                 /\ builtinAliases[i].Name # "help")
                    => BothDefinitions(j)

\* C16 as amended: the text holds both lines, the builtin's and later the
\* custom alias's, when the shell kind has a line for that builtin; for a
\* builtin it has none for (pd and cd in the PowerShell text) the text holds
\* the custom alias's line alone.  No custom alias is removed or rejected.
C16_BothWhereBuiltinEmitted ==
    pc = "initDone" =>
        \A j \in 1..Len(cfg.Aliases) :
            LET a == cfg.Aliases[j]
                i == BuiltinIndex(a.Name)
            IN  (IsDefined(a) /\ i # 0 /\ builtinAliases[i].Template # "") =>
                    IF EmittedFor(shellArg, builtinAliases[i])
                    THEN BothDefinitions(j)
                    ELSE OnlyCustomDefinition(j)

\* The POSIX text for a configuration with the alias config: two entries
\* define :config, the builtin's and the custom one.
C16_Witness ==
    /\ pc = "initDone"
    /\ shellArg = "zsh"
    /\ \E j \in 1..Len(cfg.Aliases) : cfg.Aliases[j].Name = "config"
    /\ \E k, l \in EntriesNamed("config") :
          LET es == CommandEntries(stdout)
          IN  /\ k < l
              /\ es[k] = "alias :config='$COLONSH_BIN config'"
              /\ es[l] = "alias :config='code ~/colonsh.json'"

---------------------------------------------------------------------------
(* Go's strings.Split and path/filepath on a POSIX system, as the picker   *)
(* commands use them.                                                      *)

RECURSIVE Split(_, _)
Split(s, sep) ==
    LET i == Index(s, sep)
    IN  IF i = 0 THEN <<s>>
        ELSE <<SubSeq(s, 1, i - 1)>> \o Split(Drop(s, i - 1 + Len(sep)), sep)

RECURSIVE JoinWith(_, _)
JoinWith(elems, sep) ==
    IF elems = <<>> THEN ""
    ELSE IF Len(elems) = 1 THEN elems[1]
    ELSE elems[1] \o sep \o JoinWith(Tail(elems), sep)

\* The elements filepath.Clean keeps: no empty element and no ".", and a
\* ".." together with the element before it is dropped.
RECURSIVE cleanElems(_, _, _)
cleanElems(elems, rooted, done) ==
    IF elems = <<>> THEN done
    ELSE LET e == Head(elems)
             rest == Tail(elems)
         IN  IF e = "" \/ e = "." THEN cleanElems(rest, rooted, done)
             ELSE IF e # ".." THEN cleanElems(rest, rooted, Append(done, e))
             ELSE IF done # <<>> /\ done[Len(done)] # ".."
                  THEN cleanElems(rest, rooted, SubSeq(done, 1, Len(done) - 1))
             ELSE IF rooted THEN cleanElems(rest, rooted, done)
             ELSE cleanElems(rest, rooted, Append(done, ".."))

Clean(path) ==
    LET rooted == HasPrefix(path, "/")
        elems == cleanElems(Split(path, "/"), rooted, <<>>)
    IN  IF rooted THEN "/" \o JoinWith(elems, "/")
        ELSE IF elems = <<>> THEN "."
        ELSE JoinWith(elems, "/")

\* filepath.Join of two elements: empty elements are ignored, the rest is
\* joined with a slash and cleaned.
Join(a, b) ==
    IF a = "" /\ b = "" THEN ""
    ELSE IF a = "" THEN Clean(b)
    ELSE IF b = "" THEN Clean(a)
    ELSE Clean(a \o "/" \o b)

Home == "/home/u"

expandTilde(path) ==
    IF HasPrefix(path, "~/") THEN Join(Home, TrimPrefix(path, "~/")) ELSE path

---------------------------------------------------------------------------
(* The interactive picker (huh) as the commands see it: Run returns an     *)
(* error, or nil with the value set.                                       *)

Range(xs) == {xs[i] : i \in 1..Len(xs)}

UserAborted == "user aborted"

\* A value no option of the picker has.
Unlisted == "<unlisted>"

\* A Select over the options: aborted, nothing selected, or a value.
SelectOutcomes(opts) ==
    {[ran |-> TRUE, err |-> UserAborted, one |-> "", many |-> <<>>]}
    \cup {[ran |-> TRUE, err |-> "", one |-> v, many |-> <<>>] :
             v \in Range(opts) \cup {"", Unlisted}}

\* A MultiSelect: aborted, or some of the options, each once, in some order.
MultiSelectOutcomes(opts) ==
    {[ran |-> TRUE, err |-> UserAborted, one |-> "", many |-> <<>>]}
    \cup {[ran |-> TRUE, err |-> "", one |-> "", many |-> m] :
             m \in {s \in SeqsUpTo(Range(opts), Len(opts)) :
                       \A i, j \in 1..Len(s) : i # j => s[i] # s[j]}}

\* A Confirm: aborted, or an answer.
ConfirmOutcomes ==
    {[err |-> UserAborted, yes |-> FALSE], [err |-> "", yes |-> FALSE],
     [err |-> "", yes |-> TRUE]}

\* What a command that ends without starting a process returns.
Ended(p, out, e) == [pick |-> p, out |-> out, err |-> e, execCmd |-> "", execDir |-> ""]

---------------------------------------------------------------------------
(* pd and cd: a directory is selected and printed.                         *)

\* os.ReadDir on the project roots of the machine; any other path fails.
ReadableRoots == {"/home/u/MyProjects", "/home/u/work"}

readDir(root) ==
    IF root = "/home/u/MyProjects"
    THEN <<[name |-> "api", isDir |-> TRUE], [name |-> "bin", isDir |-> TRUE],
           [name |-> "todo.txt", isDir |-> FALSE]>>
    ELSE <<>>

\* The inner loop of cmdPD: the directories of root that are not excluded.
RECURSIVE projectsIn(_, _, _)
projectsIn(root, entries, exclude) ==
    IF entries = <<>> THEN <<>>
    ELSE LET e == Head(entries)
         IN  (IF ~e.isDir \/ e.name \in Range(exclude) THEN <<>>
              ELSE <<Join(root, e.name)>>)
             \o projectsIn(root, Tail(entries), exclude)

\* The outer loop: a root that cannot be read is passed over.
RECURSIVE projectsOf(_)
projectsOf(pds) ==
    IF pds = <<>> THEN <<>>
    ELSE LET pd == Head(pds)
             root == expandTilde(pd.Path)
         IN  (IF root \notin ReadableRoots THEN <<>>
              ELSE projectsIn(root, readDir(root), pd.Exclude))
             \o projectsOf(Tail(pds))

cmdPD(c, p) ==
    IF projectsOf(c.ProjectDirs) = <<>>
    THEN Ended(NoPick, <<>>, "no projects found from project_dirs")
    ELSE IF p.err # "" THEN Ended(p, <<>>, p.err)
    ELSE IF p.one = "" THEN Ended(p, <<>>, "no project selected")
    ELSE Ended(p, <<p.one>>, "")

RECURSIVE visibleDirs(_)
visibleDirs(entries) ==
    IF entries = <<>> THEN <<>>
    ELSE LET e == Head(entries)
         IN  (IF ~e.isDir \/ HasPrefix(e.name, ".") THEN <<>> ELSE <<e.name>>)
             \o visibleDirs(Tail(entries))

cmdCD(entries, p) ==
    IF visibleDirs(entries) = <<>> THEN Ended(NoPick, <<>>, "no subdirectories found")
    ELSE IF p.err # "" THEN Ended(p, <<>>, p.err)
    ELSE IF p.one = "" THEN Ended(p, <<"No directory selected.">>, "")
    ELSE Ended(p, <<p.one>>, "")

---------------------------------------------------------------------------
(* pa: an action of the current repository is selected and run.            *)

RECURSIVE actionNames(_)
actionNames(actions) ==
    IF actions = <<>> THEN <<>>
    ELSE <<Head(actions).Name>> \o actionNames(Tail(actions))

\* A faulty variant of actionFrom: the last action of that name, not the first.
RECURSIVE actionLast(_, _, _)
actionLast(actions, name, i) ==
    IF i > Len(actions) THEN 0
    ELSE LET later == actionLast(actions, name, i + 1)
         IN  IF later # 0 THEN later
             ELSE IF actions[i].Name = name THEN i ELSE 0

\* The loop of cmdPA from index i on: the index of the first action with the
\* selected name, 0 for nil.
RECURSIVE actionFrom(_, _, _)
actionFrom(actions, name, i) ==
    IF i > Len(actions) THEN 0
    ELSE IF actions[i].Name = name THEN i
    ELSE actionFrom(actions, name, i + 1)

runDirOf(root, dir) == IF dir # "" /\ dir # "." THEN Join(root, dir) ELSE root

cmdPA(c, p, runOk) ==
    IF ~inRepo THEN Ended(NoPick, <<>>, "not inside a git repository")
    ELSE IF ~rootOk THEN Ended(NoPick, <<>>, "exit status 128")
    ELSE LET idx == findCurrentRepo(c, remoteOk, remoteOut)
             actions == IF idx = 0 THEN <<>> ELSE c.GitRepos[idx].Actions
             i == actionFrom(actions, p.one, 1)
         IN  IF actions = <<>>
             THEN Ended(NoPick, <<>>,
                        "no actions found for this repository in colonsh.json")
             ELSE IF p.err # "" THEN Ended(p, <<>>, p.err)
             ELSE IF p.one = "" THEN Ended(p, <<"No action selected.">>, "")
             ELSE IF i = 0 THEN Ended(p, <<>>, "selected action not found")
             ELSE LET runDir == runDirOf(RepoRoot, actions[i].Dir)
                      r == runShellCommand(actions[i].Cmd, runDir, runOk)
                  IN  [pick |-> p,
                       out |-> <<"Executing action " \o GoQuote(actions[i].Name)
                                     \o " in " \o runDir \o ": " \o actions[i].Cmd>>,
                       err |-> r.err, execCmd |-> r.execCmd, execDir |-> r.execDir]

---------------------------------------------------------------------------
(* gb and gdb: branches are selected, checked out or deleted.              *)

RECURSIVE nonEmptyTrimmed(_)
nonEmptyTrimmed(lines) ==
    IF lines = <<>> THEN <<>>
    ELSE (IF TrimSpace(Head(lines)) = "" THEN <<>> ELSE <<TrimSpace(Head(lines))>>)
         \o nonEmptyTrimmed(Tail(lines))

gitBranchesRaw(ok, out) ==
    IF ~ok THEN [branches |-> <<>>, err |-> "exit status 128"]
    ELSE [branches |-> nonEmptyTrimmed(Split(out, "\n")), err |-> ""]

cmdGB(ok, out, p, checkoutOk) ==
    LET r == gitBranchesRaw(ok, out)
    IN  IF r.err # "" THEN Ended(NoPick, <<>>, r.err)
        ELSE IF r.branches = <<>> THEN Ended(NoPick, <<>>, "no branches found")
        ELSE IF p.err # "" THEN Ended(p, <<>>, p.err)
        ELSE IF p.one = "" THEN Ended(p, <<"No branch selected.">>, "")
        ELSE [pick |-> p, out |-> <<"Switching to branch: " \o p.one>>,
              err |-> IF checkoutOk THEN "" ELSE "exit status 1",
              execCmd |-> "git checkout " \o p.one, execDir |-> ""]

RECURSIVE deletable(_)
deletable(all) ==
    IF all = <<>> THEN <<>>
    ELSE (IF Head(all) = "main" \/ Head(all) = "master" THEN <<>> ELSE <<Head(all)>>)
         \o deletable(Tail(all))

\* cmdGDB up to its deletion loop: go says whether the loop is entered.
cmdGDB(ok, out, p, c) ==
    LET r == gitBranchesRaw(ok, out)
        listed == <<"Branches to delete:">>
                      \o [i \in 1..Len(p.many) |-> "  " \o p.many[i]]
    IN  IF r.err # ""
        THEN [pick |-> NoPick, out |-> <<>>, err |-> r.err, go |-> FALSE]
        ELSE IF deletable(r.branches) = <<>>
        THEN [pick |-> NoPick, err |-> "", go |-> FALSE,
              out |-> <<"No branches available for deletion (all filtered).">>]
        ELSE IF p.err # "" THEN [pick |-> p, out |-> <<>>, err |-> p.err, go |-> FALSE]
        ELSE IF Len(p.many) = 0
        THEN [pick |-> p, out |-> <<"No branches selected.">>, err |-> "", go |-> FALSE]
        ELSE IF c.err # "" THEN [pick |-> p, out |-> listed, err |-> c.err, go |-> FALSE]
        ELSE IF ~c.yes
        THEN [pick |-> p, out |-> listed \o <<"Aborted.">>, err |-> "", go |-> FALSE]
        ELSE [pick |-> p, out |-> listed, err |-> "", go |-> TRUE]

\* A faulty variant of afterDelete: a failed deletion ends the command with its error.
afterDeleteStopping(n, total, ok) ==
    IF ~ok THEN [pc |-> "done", err |-> "exit status 1"]
    ELSE IF n = total THEN [pc |-> "done", err |-> ""]
    ELSE [pc |-> "deleting", err |-> ""]

\* The deletion loop after its n-th git branch -d, of total: the outcome of
\* the command is dropped; after the last one cmdGDB returns nil.
afterDelete(n, total, ok) ==
    IF n = total THEN [pc |-> "done", err |-> ""]
    ELSE [pc |-> "deleting", err |-> ""]

---------------------------------------------------------------------------
(* The picker commands as a state machine: run has loaded the Config and   *)
(* dispatches on its first argument.                                       *)

\* A command returns: its output, its error and the process it started.
Return(r) ==
    /\ pick' = r.pick
    /\ stdout' = stdout \o r.out
    /\ err' = r.err
    /\ execCmd' = r.execCmd
    /\ execDir' = r.execDir
    /\ pc' = "done"
    /\ UNCHANGED <<gitVars, cfg, envVars, cwdEntries, branchOk, branchOut, confirm,
                   attempts, notPick>>

CmdPD ==
    /\ pc = "loaded"
    /\ args = <<"pd">>
    /\ \E p \in SelectOutcomes(projectsOf(cfg.ProjectDirs)) : Return(cmdPD(cfg, p))

CmdCD ==
    /\ pc = "loaded"
    /\ args = <<"cd">>
    /\ \E p \in SelectOutcomes(visibleDirs(cwdEntries)) : Return(cmdCD(cwdEntries, p))

CmdPA ==
    /\ pc = "loaded"
    /\ args = <<"pa">>
    /\ LET idx == findCurrentRepo(cfg, remoteOk, remoteOut)
           names == IF idx = 0 THEN <<>> ELSE actionNames(cfg.GitRepos[idx].Actions)
       IN  \E p \in SelectOutcomes(names), runOk \in BOOLEAN :
               Return(cmdPA(cfg, p, runOk))

CmdGB ==
    /\ pc = "loaded"
    /\ args = <<"gb">>
    /\ \E p \in SelectOutcomes(gitBranchesRaw(branchOk, branchOut).branches),
          checkoutOk \in BOOLEAN :
            Return(cmdGB(branchOk, branchOut, p, checkoutOk))

CmdGDB ==
    /\ pc = "loaded"
    /\ args = <<"gdb">>
    /\ \E p \in MultiSelectOutcomes(deletable(gitBranchesRaw(branchOk, branchOut).branches)),
          c \in ConfirmOutcomes :
            LET r == cmdGDB(branchOk, branchOut, p, c)
            IN  /\ pick' = r.pick
                /\ confirm' = r.go
                /\ stdout' = stdout \o r.out
                /\ err' = r.err
                /\ pc' = IF r.go THEN "deleting" ELSE "done"
    /\ UNCHANGED <<gitVars, cfg, envVars, cwdEntries, branchOk, branchOut, attempts,
                   execCmd, execDir, notPick>>

\* One turn of the deletion loop: git branch -d on the next selected branch,
\* which succeeds or fails.
GdbDelete ==
    /\ pc = "deleting"
    /\ Len(attempts) < Len(pick.many)
    /\ \E ok \in BOOLEAN :
          LET b == pick.many[Len(attempts) + 1]
              r == afterDelete(Len(attempts) + 1, Len(pick.many), ok)
          IN  /\ attempts' = Append(attempts, [branch |-> b, ok |-> ok])
              /\ stdout' = Append(stdout, "Deleting branch: " \o b)
              /\ err' = r.err
              /\ pc' = r.pc
    /\ UNCHANGED <<gitVars, cfg, envVars, cwdEntries, branchOk, branchOut, pick,
                   confirm, execCmd, execDir, notPick>>

NextPick == CmdPD \/ CmdCD \/ CmdPA \/ CmdGB \/ CmdGDB \/ GdbDelete

ProjectDirEntries ==
    {[Path |-> "~/MyProjects", Exclude |-> <<"bin", "notes">>],
     [Path |-> "~/MyProjects", Exclude |-> <<>>],
     [Path |-> "~/work", Exclude |-> <<>>],
     [Path |-> "/nowhere", Exclude |-> <<>>]}

PdConfigs ==
    {[Aliases |-> <<>>, ProjectDirs |-> pds, GitRepos |-> <<>>, OpenCmd |-> ""] :
        pds \in SeqsUpTo(ProjectDirEntries, MaxProjectDirs)}

ActionEntries ==
    {[Name |-> "build", Cmd |-> "make", Dir |-> ""],
     [Name |-> "build", Cmd |-> "make -C x", Dir |-> "sub"],
     [Name |-> "test", Cmd |-> "go test ./...", Dir |-> "."],
     [Name |-> "docs", Cmd |-> "mkdocs build", Dir |-> "../site/./html"],
     [Name |-> "noop", Cmd |-> "", Dir |-> "sub"]}

PaConfigs ==
    {ConfigOf(<<[Slug |-> "acme/widget", Name |-> "widget", OpenCmd |-> "",
                 Actions |-> as]>>, "") :
        as \in SeqsUpTo(ActionEntries, MaxActions)}

CwdListings ==
    {<<>>,
     <<[name |-> "go.mod", isDir |-> FALSE]>>,
     <<[name |-> ".git", isDir |-> TRUE], [name |-> "src", isDir |-> TRUE]>>,
     <<[name |-> "docs", isDir |-> TRUE], [name |-> "main.go", isDir |-> FALSE],
       [name |-> "src", isDir |-> TRUE]>>}

BranchOutputs ==
    {"", "main\n", "feat\nmain\n", "feat\nfix\nmain\n", "  feat \n\nmaster\n"}

InitPick ==
    /\ pc = "loaded"
    /\ envSHELL = "" /\ goos = "linux"
    /\ pick = NoPick /\ confirm = FALSE /\ attempts = <<>>
    /\ IdleQuote /\ IdleDisk /\ IdleCmd /\ IdleRepo /\ IdleOut /\ IdleExit
    /\ IdleRace /\ IdleSetup
    /\ \/ /\ args = <<"pd">>
          /\ cfg \in PdConfigs
          /\ IdleGit /\ cwdEntries = <<>> /\ branchOk = FALSE /\ branchOut = ""
       \/ /\ args = <<"cd">>
          /\ cwdEntries \in CwdListings
          /\ IdleConfig /\ IdleGit /\ branchOk = FALSE /\ branchOut = ""
       \/ /\ args = <<"pa">>
          /\ cfg \in PaConfigs
          /\ \/ inRepo = FALSE /\ rootOk = FALSE /\ remoteOk = FALSE /\ remoteOut = ""
             \/ inRepo = TRUE /\ rootOk = FALSE /\ remoteOk = FALSE /\ remoteOut = ""
             \/ inRepo = TRUE /\ rootOk = TRUE /\ remoteOk = FALSE /\ remoteOut = ""
             \/ /\ inRepo = TRUE /\ rootOk = TRUE /\ remoteOk = TRUE
                /\ remoteOut \in {SshExample \o "\n",
                                  "https://github.com/other/thing.git\n"}
          /\ cwdEntries = <<>> /\ branchOk = FALSE /\ branchOut = ""
       \/ /\ args \in {<<"gb">>, <<"gdb">>}
          /\ \/ branchOk = FALSE /\ branchOut = ""
             \/ branchOk = TRUE /\ branchOut \in BranchOutputs
          /\ IdleConfig /\ IdleGit /\ cwdEntries = <<>>

SpecPick == InitPick /\ [][NextPick]_vars

---------------------------------------------------------------------------
(* Properties of the picker commands.                                      *)

\* The actions of the repository pa runs in, <<>> when there is none.
CurrentActions ==
    LET idx == findCurrentRepo(cfg, remoteOk, remoteOut)
    IN  IF idx = 0 THEN <<>> ELSE cfg.GitRepos[idx].Actions

Named(name) == {i \in 1..Len(CurrentActions) : CurrentActions[i].Name = name}

\* C11: pa runs the cmd of the first action whose name is the selected name,
\* in the repository root when the action's dir is empty or ".", in the root
\* joined with dir otherwise; when no action has that name the result is the
\* not-found error and nothing is executed.
C11_SelectedAction ==
    (pc = "done" /\ args = <<"pa">> /\ pick.ran /\ pick.err = "" /\ pick.one # "") =>
        IF Named(pick.one) = {}
        THEN /\ err = "selected action not found"
             /\ execCmd = "" /\ execDir = "" /\ stdout = <<>>
        ELSE LET i == CHOOSE k \in Named(pick.one) : \A l \in Named(pick.one) : k <= l
                 a == CurrentActions[i]
                 dir == IF a.Dir = "" \/ a.Dir = "." THEN RepoRoot
                        ELSE Join(RepoRoot, a.Dir)
             IN  /\ a.Dir = "sub" => dir = RepoRoot \o "/sub"
                 /\ stdout = <<"Executing action " \o GoQuote(pick.one) \o " in "
                                   \o dir \o ": " \o a.Cmd>>
                 /\ IF a.Cmd = ""
                    THEN err = "empty command" /\ execCmd = "" /\ execDir = ""
                    ELSE execCmd = a.Cmd /\ execDir = dir

\* Two actions are named build; the first, declared for the directory sub,
\* was run there.
C11_Witness ==
    /\ pc = "done"
    /\ args = <<"pa">>
    /\ pick.one = "build"
    /\ Len(CurrentActions) = 2
    /\ CurrentActions[1].Dir = "sub"
    /\ CurrentActions[2].Name = "build"
    /\ execCmd = "make -C x"
    /\ execDir = "/home/u/widget/sub"
    /\ err = ""

\* C13: in pd, cd, pa, gb and gdb a picker that returns with nothing selected
\* makes the command a no-op: it returns nil and starts nothing.
C13_NothingSelectedIsNoOp ==
    (pc = "done" /\ pick.ran /\ pick.err = "" /\ pick.one = "" /\ pick.many = <<>>) =>
        /\ err = ""
        /\ execCmd = ""
        /\ attempts = <<>>

\* C17: once the deletion is confirmed gdb runs git branch -d on every
\* selected branch, in the order of the selection, whether the deletions
\* before it failed or not, and then returns nil; without the confirmation
\* it deletes nothing.
C17_EveryBranchAttempted ==
    /\ \A i \in 1..Len(attempts) :
          i <= Len(pick.many) /\ attempts[i].branch = pick.many[i]
    /\ ~confirm => attempts = <<>>
    /\ pc = "deleting" =>
          confirm /\ err = "" /\ Len(attempts) < Len(pick.many)
    /\ (pc = "done" /\ args = <<"gdb">> /\ confirm) =>
          err = "" /\ Len(attempts) = Len(pick.many)

\* Two branches were selected; the first deletion failed, the second was
\* run all the same and the command returned nil.
C17_Witness ==
    /\ pc = "done"
    /\ args = <<"gdb">>
    /\ confirm
    /\ pick.many = <<"fix", "feat">>
    /\ Len(attempts) = 2
    /\ ~attempts[1].ok
    /\ attempts[2].branch = "feat"
    /\ err = ""

---------------------------------------------------------------------------
(* main and run from the start of the process to its exit.                 *)

\* openPath: the handler of the system is started; ok is whether it (on
\* Linux one of the known commands) succeeds.
openPath(path, os, ok) ==
    IF ok THEN ""
    ELSE IF os = "linux"
    THEN "failed to open browser/URL using all known commands: " \o path
    ELSE "exit status 1"

cmdConfig(f, os, ok) ==
    IF ~f.exists
    THEN [out |-> <<>>, execCmd |-> "",
          err |-> "config file not found at " \o CfgPath \o ": stat " \o CfgPath
                      \o ": no such file or directory"]
    ELSE [out |-> <<"Opening config: " \o CfgPath>>, execCmd |-> "open " \o CfgPath,
          err |-> openPath(CfgPath, os, ok)]

\* run, lines 67-75: an error of loadOrInitConfig is returned at once.
RunLoad ==
    /\ pc = "start"
    /\ LET r == loadOrInitConfig(file, ioOk)
       IN  /\ cfg' = r.cfg
           /\ err' = r.err
           /\ file' = r.file
           /\ stdout' = stdout \o r.out
           /\ loads' = Append(loads, [existed |-> file.exists, cfg |-> r.cfg,
                                      err |-> r.err, wrote |-> r.wrote])
           /\ pc' = IF r.err = "" THEN "loaded" ELSE "failed"
    /\ UNCHANGED <<ioOk, execCmd, execDir, notConfig>>

RunConfig ==
    /\ pc = "loaded"
    /\ Len(args) > 0
    /\ args[1] = "config"
    /\ \E ok \in BOOLEAN :
          LET r == cmdConfig(file, goos, ok)
          IN  /\ stdout' = stdout \o r.out
              /\ execCmd' = r.execCmd
              /\ err' = r.err
    /\ pc' = "configDone"
    /\ UNCHANGED <<cfg, envVars, cmdVars, execDir, notRun>>

\* main: the error of run, if any, goes to the error stream on one line and
\* the process exits with status 1; it exits with status 0 otherwise.
MainExit ==
    /\ pc \in {"failed", "initDone", "helpDone", "configDone"}
    /\ stderr' = IF err = "" THEN stderr ELSE Append(stderr, "colonsh: " \o err)
    /\ exitCode' = IF err = "" THEN 0 ELSE 1
    /\ pc' = "exited"
    /\ UNCHANGED <<quoteVars, gitVars, diskVars, cfg, envVars, cmdVars, repoVars,
                   outVars, pickVars, raceVars, setupVars>>

NextMain == RunLoad \/ RunInit \/ RunHelp \/ RunConfig \/ MainExit

MainFiles ==
    {NoFile, Malformed, FileOf(JArr(<<>>)),
     FileOf(JObj(<<Member("aliases", JArr(<<JStr("x")>>))>>)),
     FileOf(marshalConfig(defaultConfig))}
    \cup {FileOf(marshalConfig(c)) : c \in AliasConfigs}

MainArgs ==
    {<<>>, <<"help">>, <<"init">>, <<"init", "bash">>, <<"init", "powershell">>,
     <<"config">>}

InitMain ==
    /\ pc = "start"
    /\ file \in MainFiles
    /\ ioOk \in BOOLEAN
    /\ loads = <<>>
    /\ args \in MainArgs
    /\ envSHELL \in {"", "/bin/zsh"}
    /\ goos \in {"linux", "windows"}
    /\ IdleQuote /\ IdleGit /\ IdleConfig /\ IdleCmd /\ IdleRepo /\ IdleOut
    /\ IdleExt

SpecMain == InitMain /\ [][NextMain]_vars

\* The file exists and json.Unmarshal into a Config rejects what it holds.
Unparseable(f) == f.exists /\ (~f.valid \/ ~unmarshalConfig(f.doc).ok)

\* C12: when the configuration file exists and cannot be parsed, the
\* invocation, whatever its subcommand, dispatches nothing and writes nothing
\* to standard output, leaves the file as it is, and exits with a non-zero
\* status after one line on the error stream that holds the file's path.
C12_ParseFailureIsFatal ==
    (Unparseable(file) /\ ioOk) =>
        /\ pc \in {"start", "failed", "exited"}
        /\ stdout = <<>> /\ execCmd = "" /\ shellArg = "" /\ maxNameLen = 0
        /\ \A i \in 1..Len(loads) : loads[i].existed /\ ~loads[i].wrote
        /\ pc = "start" => stderr = <<>>
        /\ pc = "failed" => stderr = <<>> /\ err # ""
        /\ pc = "exited" =>
              /\ exitCode # 0
              /\ Len(stderr) = 1
              /\ Contains(stderr[1], CfgPath)
              /\ ~Contains(stderr[1], "\n")

\* init was asked for on a file whose aliases member holds a string where an
\* object is expected: the process has exited with status 1.
C12_Witness ==
    /\ pc = "exited"
    /\ args = <<"init", "bash">>
    /\ file = FileOf(JObj(<<Member("aliases", JArr(<<JStr("x")>>))>>))
    /\ exitCode = 1
    /\ stderr = <<"colonsh: failed to parse " \o CfgPath \o ": invalid JSON">>

\* C20: whatever a successful init writes to standard output is the
\* shell-integration text and nothing else, on a first run without a
\* configuration file too.
C20_InitStdoutIsTheText ==
    (pc = "exited" /\ exitCode = 0 /\ Len(args) > 0 /\ args[1] = "init") =>
        /\ stdout = cmdInit(initShellArg(args), cfg, envSHELL, goos)
        /\ HasPrefix(stdout[1], "# colonsh ")

---------------------------------------------------------------------------
(* Invocations that run loadOrInitConfig at the same time on a path where  *)
(* no file exists.  Each system call is a step: os.Stat, os.ReadFile, and  *)
(* the two of os.WriteFile, which opens the file with O_CREATE|O_TRUNC and *)
(* then writes the bytes.                                                  *)

Started == [pc |-> "stat", cfg |-> EmptyConfig, err |-> "", out |-> <<>>]

raceFrame ==
    <<pc, quoteVars, gitVars, ioOk, loads, cfg, envVars, cmdVars, repoVars, outVars,
      pickVars, exitVars, setupVars>>

\* os.Stat(path): the file is read if it exists, created if it does not.
Stat ==
    /\ \E p \in DOMAIN procs :
          /\ procs[p].pc = "stat"
          /\ procs' = [procs EXCEPT ![p].pc = IF file.exists THEN "read" ELSE "create"]
    /\ UNCHANGED <<file, raceFrame>>

\* os.ReadFile and json.Unmarshal of what the file holds at that moment.
ReadFile ==
    /\ \E p \in DOMAIN procs :
          /\ procs[p].pc = "read"
          /\ LET r == loadOrInitConfig(file, TRUE)
             IN  procs' = [procs EXCEPT ![p] = [pc |-> "done", cfg |-> r.cfg,
                                                err |-> r.err, out |-> r.out]]
    /\ UNCHANGED <<file, raceFrame>>

\* os.WriteFile, first half: the file is created or cut to no bytes.
OpenTruncate ==
    /\ \E p \in DOMAIN procs :
          /\ procs[p].pc = "create"
          /\ procs' = [procs EXCEPT ![p].pc = "write"]
    /\ file' = Malformed
    /\ UNCHANGED raceFrame

\* os.WriteFile, second half, and the return of loadOrInitConfig.
WriteFile ==
    /\ \E p \in DOMAIN procs :
          /\ procs[p].pc = "write"
          /\ LET r == loadOrInitConfig(NoFile, TRUE)
             IN  /\ file' = r.file
                 /\ procs' = [procs EXCEPT ![p] = [pc |-> "done", cfg |-> r.cfg,
                                                   err |-> r.err, out |-> r.out]]
    /\ UNCHANGED raceFrame

NextRace == Stat \/ ReadFile \/ OpenTruncate \/ WriteFile

InitRace ==
    /\ pc = "start"
    /\ file = NoFile /\ ioOk = TRUE /\ loads = <<>>
    /\ procs \in {[p \in 1..n |-> Started] : n \in 2..MaxProcs}
    /\ IdleQuote /\ IdleGit /\ IdleConfig /\ IdleEnv /\ IdleCmd /\ IdleRepo /\ IdleOut
    /\ IdlePick /\ IdleExit /\ IdleSetup

SpecRace == InitRace /\ [][NextRace]_vars

AllDone == \A p \in DOMAIN procs : procs[p].pc = "done"

\* C18: in every interleaving of invocations that start while no file
\* exists, each one returns the default Config and no error, and when all of
\* them have returned the file holds the default document.
C18_RaceIsBenign ==
    /\ \A p \in DOMAIN procs :
          procs[p].pc = "done" => procs[p].err = "" /\ procs[p].cfg = defaultConfig
    /\ (procs # <<>> /\ AllDone) => file = FileOf(marshalConfig(defaultConfig))

---------------------------------------------------------------------------
(* setup: the integration block is appended to the profile of the shell.   *)

Absent == [exists |-> FALSE, content |-> ""]
Present(text) == [exists |-> TRUE, content |-> text]

ProfilePaths ==
    {"/home/u/.bashrc", "/home/u/.bash_profile", "/home/u/.zshrc",
     "/home/u/.config/fish/config.fish"}

\* os.Stat(path) finds a file; a path that is not one of the profiles (the
\* unexpanded "~/.bashrc" is one, relative to the working directory) has none.
statExists(profs, path) == path \in DOMAIN profs /\ profs[path].exists

Marker == "# --- colonsh Integration ---"

setupBlock(date, shell) ==
    "\n# --- colonsh Integration ---\n"
    \o "# Added by 'colonsh setup' on " \o date \o "\n"
    \o "if command -v colonsh >/dev/null 2>&1; then\n"
    \o "  # Load aliases generated by 'colonsh init'\n"
    \o "  eval \"$(colonsh init " \o shell \o ")\"\n"
    \o "  echo \"colonsh loaded\"\n"
    \o "fi\n"
    \o "# --- End colonsh Integration ---\n"

\* Step 1 of cmdSetup for bash, zsh and fish.
profilePathOf(shell, os, profs) ==
    IF shell = "bash"
    THEN IF os = "darwin" /\ ~statExists(profs, "~/.bashrc")
         THEN "~/.bash_profile" ELSE "~/.bashrc"
    ELSE IF shell = "zsh" THEN "~/.zshrc"
    ELSE Join(Home, ".config/fish/config.fish")

\* A faulty variant of hasSetupBlock: the marker is looked for in lower case.
hasSetupBlockLowerCase(content) == Contains(content, "# --- colonsh integration ---")

\* Step 2: bytes.Contains(content, marker).
hasSetupBlock(content) == Contains(content, Marker)

\* cmdSetup: the profiles afterwards, the lines printed and the error; io is
\* whether the profile may be read and written.  The emoji that opens two
\* of the lines is left out.
cmdSetup(shellPath, os, profs, date, io) ==
    LET targetShell == detectShell(shellPath, os)
        profilePath == profilePathOf(targetShell, os, profs)
        expandedPath == expandTilde(profilePath)
        f == profs[expandedPath]
    IN  IF targetShell = "powershell"
        THEN [profiles |-> profs, path |-> "", err |-> "",
              out |-> <<"PowerShell requires manual setup due to dynamic profile paths and security policies.",
                        "1. Run: colonsh init powershell",
                        "2. Copy the output into your $PROFILE file (e.g., C:\\Users\\...\\profile.ps1).">>]
        ELSE IF targetShell \notin {"bash", "zsh", "fish"}
        THEN [profiles |-> profs, path |-> "", out |-> <<>>,
              err |-> "unsupported shell " \o GoQuote(targetShell)
                          \o " for automatic setup. Please use 'colonsh init' and follow manual instructions"]
        ELSE IF f.exists /\ ~io
        THEN [profiles |-> profs, path |-> expandedPath, out |-> <<>>,
              err |-> "failed to read profile file " \o expandedPath \o ": open "
                          \o expandedPath \o ": permission denied"]
        ELSE IF hasSetupBlock(f.content)
        THEN [profiles |-> profs, path |-> expandedPath, err |-> "",
              out |-> <<"colonsh setup block already found in " \o expandedPath
                            \o ". Nothing changed.">>]
        ELSE IF ~io
        THEN [profiles |-> profs, path |-> expandedPath, out |-> <<>>,
              err |-> "failed to open " \o expandedPath \o " for writing: open "
                          \o expandedPath \o ": permission denied"]
        ELSE [profiles |-> [profs EXCEPT ![expandedPath] =
                               Present(f.content \o setupBlock(date, targetShell))],
              path |-> expandedPath, err |-> "",
              out |-> <<"Successfully appended colonsh setup block to "
                            \o expandedPath \o ".",
                        "Please run 'source " \o profilePath
                            \o "' or restart your terminal for changes to take effect.">>]

CmdSetup ==
    /\ pc = "loaded"
    /\ args = <<"setup">>
    /\ \E io \in BOOLEAN :
          LET r == cmdSetup(envSHELL, goos, profiles, today, io)
          IN  /\ profiles' = r.profiles
              /\ stdout' = stdout \o r.out
              /\ err' = r.err
              /\ setupLog' = Append(setupLog,
                    [path |-> r.path, io |-> io, date |-> today, err |-> r.err,
                     before |-> IF r.path = "" THEN Absent ELSE profiles[r.path],
                     after |-> IF r.path = "" THEN Absent ELSE r.profiles[r.path]])
    /\ pc' = "setupDone"
    /\ UNCHANGED <<quoteVars, gitVars, diskVars, cfg, envVars, cmdVars, repoVars,
                   execCmd, execDir, pickVars, exitVars, raceVars, today>>

Dates == {"2026-01-30", "2026-01-31"}

\* The process has ended; setup is run again, the same day or a later one.
SetupAgain ==
    /\ pc = "setupDone"
    /\ Len(setupLog) < MaxSetupRuns
    /\ pc' = "loaded"
    /\ stdout' = <<>>
    /\ err' = ""
    /\ today' \in {d \in Dates : d = today \/ today = "2026-01-30"}
    /\ UNCHANGED <<quoteVars, gitVars, diskVars, cfg, envVars, cmdVars, repoVars,
                   execCmd, execDir, pickVars, exitVars, raceVars, profiles, setupLog>>

NextSetup == CmdSetup \/ SetupAgain

InitialProfiles ==
    {[p \in ProfilePaths |-> Absent],
     [p \in ProfilePaths |-> Present("")],
     [p \in ProfilePaths |-> Present("export EDITOR=vi\n")],
     [p \in ProfilePaths |-> Present("alias ll='ls -l'")],
     [p \in ProfilePaths |->
         IF p = "/home/u/.bashrc" THEN Present("# colonsh\n") ELSE Absent]}

InitSetup ==
    /\ pc = "loaded"
    /\ args = <<"setup">>
    /\ envSHELL \in {"", "/bin/zsh", "/usr/bin/bash", "/usr/bin/fish"}
    /\ goos \in {"linux", "darwin", "windows"}
    /\ profiles \in InitialProfiles
    /\ today = "2026-01-30"
    /\ setupLog = <<>>
    /\ IdleQuote /\ IdleGit /\ IdleDisk /\ IdleConfig /\ IdleCmd /\ IdleRepo /\ IdleOut
    /\ IdlePick /\ IdleExit /\ IdleRace

SpecSetup == InitSetup /\ [][NextSetup]_vars


\* How many times sub occurs in s.
RECURSIVE CountOf(_, _)
CountOf(s, sub) ==
    LET i == Index(s, sub)
    IN  IF i = 0 THEN 0 ELSE 1 + CountOf(Drop(s, i), sub)

EndMarker == "# --- End colonsh Integration ---"

\* The runs so far that could read and write the profile.
Succeeded == {i \in 1..Len(setupLog) : setupLog[i].path # "" /\ setupLog[i].io}

\* C19: run one after the other for bash, zsh or fish, setup appends the
\* integration block to the profile in the first run that can read and write
\* it, and every later run finds the marker, leaves the profile as it is and
\* returns nil: the profile holds the block once after any number of runs.
C19_SetupIdempotent ==
    \A i \in 1..Len(setupLog) :
        LET e == setupLog[i]
            first == \A j \in Succeeded : i <= j
        IN  e.path # "" =>
              /\ i > 1 => /\ e.path = setupLog[i - 1].path
                          /\ e.before = setupLog[i - 1].after
              /\ i = Len(setupLog) => profiles[e.path] = e.after
              /\ ~e.io => e.after = e.before /\ e.err # ""
              /\ (e.io /\ first) =>
                    /\ e.err = ""
                    /\ e.after.exists
                    /\ e.after.content =
                          e.before.content
                              \o setupBlock(e.date, detectShell(envSHELL, goos))
                    /\ CountOf(e.before.content, Marker) = 0
                    /\ CountOf(e.after.content, Marker) = 1
                    /\ CountOf(e.after.content, EndMarker) = 1
              /\ (e.io /\ ~first) =>
                    /\ e.err = ""
                    /\ e.after = e.before
                    /\ CountOf(e.after.content, Marker) = 1
                    /\ CountOf(e.after.content, EndMarker) = 1

\* Three runs for zsh on a profile with a line of its own: the first
\* appended the block, the second, a day later, and the third changed nothing.
C19_Witness ==
    /\ pc = "setupDone"
    /\ Len(setupLog) = 3
    /\ Succeeded = {1, 2, 3}
    /\ setupLog[1].path = "/home/u/.zshrc"
    /\ setupLog[1].before = Present("export EDITOR=vi\n")
    /\ setupLog[1].after # setupLog[1].before
    /\ setupLog[2].date # setupLog[1].date
    /\ setupLog[3].after = setupLog[1].after
    /\ err = ""
    /\ CountOf(profiles["/home/u/.zshrc"].content, Marker) = 1

===========================================================================
